---- MODULE Spec2Model ----
(***************************************************************************)
(* TrueMoney: the KRNL-gated token contract (TokenContract), the kernel    *)
(* client (executeTokenTransfer / processTokenTransfer) and the transfer   *)
(* flow of the wallet UI (TrueMoneyMobile.handleTokenTransfer).            *)
(*                                                                         *)
(* Amounts on chain are counted in a scaled-down base unit: the 18-decimal *)
(* fixed point of the token does not fit the model checker's integers, so  *)
(* InitialSupply and the transferred amounts are small naturals.           *)
(***************************************************************************)
EXTENDS Integers, Sequences, FiniteSets, TLC

\* ------------------------------------------------------------------ bounds
NumAccounts == 2
MaxAmount == 2
MaxResponses == 2
MaxBundleResponses == 1
MaxTransfers == 2
MaxApprovals == 1
MaxTime == 1
InitialSupply == 3
MaxAttempts == 2

\* ------------------------------------------------------- program constants
COMPILOT_KERNEL_ID == 1657
ZERO_ADDRESS == 0

Accounts == 1..NumAccounts
Addresses == {ZERO_ADDRESS} \cup Accounts
Amounts == 1..MaxAmount
\* msg.sender of the constructor: receives the initial supply
Deployer == 1

\* ------------------------------------------------------------- data model
\* WebhookPayload: the fields of the decision the contract and the test
\* script read (the remaining fields are fixed strings never inspected).
Statuses == {"pending", "approved", "rejected", "under_review"}
RiskLevels == {"Low", "Medium", "High"}

WebhookPayload(status, riskLevel, riskScore, reason, extId) ==
    [status |-> status, riskLevel |-> riskLevel, riskScore |-> riskScore,
     reason |-> reason, externalTransactionId |-> extId]

\* WebhookResponse: eventType is always "transaction.updated".
WebhookResponse(payload) ==
    [eventType |-> "transaction.updated", payload |-> payload]

\* The decisions of the test script's runTestCases, one per status.
TestCasePayloads ==
    { WebhookPayload("approved", "Low", 15,
                     "Transaction approved after risk assessment", "tx-test1"),
      WebhookPayload("rejected", "High", 85,
                     "High risk indicators detected - transaction blocked", "tx-test3"),
      WebhookPayload("under_review", "Medium", 55,
                     "Transaction requires manual review", "tx-test4"),
      WebhookPayload("pending", "Low", 0,
                     "Awaiting risk assessment completion", "tx-test5") }

\* The empty WebhookResponse a Solidity mapping returns for an unset key.
EmptyAssessment ==
    [eventType |-> "", payload |-> WebhookPayload("", "", 0, "", "")]

\* KernelResponse {kernelId, result, err}: result is the ABI-encoded
\* WebhookResponse; err is never read by the contract.
KernelResponse(kernelId, response) ==
    [kernelId |-> kernelId, result |-> response]

OtherKernelId == COMPILOT_KERNEL_ID + 1

\* abi.encode of static values: one big-endian 32-byte word per argument
\* (address and uint256 alike, left-padded with zeros). A word of the model
\* has WordLen digits in base WordBase.
WordBase == 4
WordLen == 2
Word(v) == <<(v \div WordBase) % WordBase, v % WordBase>>
FromWord(w) == w[1] * WordBase + w[2]

AbiEncode2(a, b) == Word(a) \o Word(b)
AbiEncode3(a, b, c) == Word(a) \o Word(b) \o Word(c)

\* abi.decode(blob, (address, uint256))
AbiDecode2(blob) ==
    <<FromWord(SubSeq(blob, 1, WordLen)), FromWord(SubSeq(blob, WordLen + 1, 2 * WordLen))>>

\* keccak256(abi.encodePacked(from, to, amount, block.timestamp)): the packed
\* words are fixed-width, so distinct tuples give distinct hashes.
TransferHash(from, to, amount, timestamp) == <<from, to, amount, timestamp>>

RECURSIVE SeqsUpTo(_, _)
SeqsUpTo(S, n) ==
    IF n = 0 THEN { <<>> }
    ELSE LET shorter == SeqsUpTo(S, n - 1)
         IN  shorter \cup { Append(s, x) : s \in { t \in shorter : Len(t) = n - 1 }, x \in S }

\* ---------------------------------------------------------- kernel bundles
\* KrnlPayload {auth, kernelResponses, kernelParams}.  auth is the token
\* authority's signature over the ABI-encoded function parameters: it is
\* modelled by the parameter blob it signs (<<>> for a signature that signs
\* nothing the contract can be called with).  kernelParams is opaque and
\* never read by TokenContract.
NoPayload == [auth |-> <<-1>>, kernelResponses |-> <<>>]

ForgedAuth == <<>>

KernelResponses ==
    { KernelResponse(COMPILOT_KERNEL_ID, WebhookResponse(p)) : p \in TestCasePayloads }
    \cup { KernelResponse(OtherKernelId,
                          WebhookResponse(WebhookPayload("approved", "Low", 15,
                              "Transaction approved after risk assessment", "tx-test1"))) }

KernelResponseLists == SeqsUpTo(KernelResponses, MaxBundleResponses)

TransferParamBlobs == { AbiEncode2(to, amount) : to \in Addresses, amount \in Amounts }

TransferFromParamBlobs ==
    { AbiEncode3(from, to, amount) : from \in Addresses, to \in Addresses, amount \in Amounts }

\* Bundles signed for a transferWithKRNL call (or signed for nothing).
KrnlPayloads ==
    [auth : TransferParamBlobs \cup {ForgedAuth}, kernelResponses : KernelResponseLists]

\* Bundles signed for a transferFromWithKRNL call.
KrnlPayloadsFrom ==
    [auth : TransferFromParamBlobs, kernelResponses : KernelResponseLists]

\* ------------------------------------------------------------------ state
VARIABLES
    balances,             \* ERC20 _balances
    allowances,           \* ERC20 _allowances[owner][spender]
    transferAssessments,  \* mapping(bytes32 => WebhookResponse)
    events,               \* the TransferAssessed log of the chain
    now,                  \* block.timestamp
    lastCall,             \* receipt of the transaction just executed
    krnlPayload,          \* the bundle the kernel returned
    gate,                 \* one evaluation of checkTransferAllowed: input and result
    built,                \* one call of executeTokenTransfer: arguments and outcome
    monitored,            \* executeKrnl, then processMonitoredTransaction, on one transactionData
    proxy,                \* one request to the risk proxy: what upstream said, the response
    bulk,                 \* one bulk request of the risk proxy, lookup by lookup
    notif,                \* TrueMoneyMobile: the receiver notification's state, refs, timers and effects
    sim,                  \* the test script's simulated verdict and the gate's, on one decision
                      \* c
    startup,              \* the two programs' start: environment, module load, calls made
    signer,               \* TrueMoneyMobile: a wallet is connected
    recipientAddress,     \* TrueMoneyMobile form field
    transferAmount,       \* TrueMoneyMobile form field
    transferLoading,      \* TrueMoneyMobile: an attempt is running (button disabled)
    transferHash,         \* TrueMoneyMobile: hash of the last confirmed transfer
    errorToast,           \* TrueMoneyMobile: message of the last showErrorToast
    pc,                   \* position of handleTokenTransfer
    kernelCalls,          \* executeKernels requests sent by the running attempt
    submissions,          \* contract.transferWithKRNL requests made by the running attempt
    attempts,             \* invocations of handleTokenTransfer so far
    tx,                   \* the transaction processTokenTransfer is waiting for
    kernelFault,          \* what executeKernels rejected with, if it did
    caughtError,          \* the error handleTokenTransfer's catch block received
    missingKeys           \* keys absent from the kernel's response

contractVars == <<balances, allowances, transferAssessments, events, now>>
clientVars == <<signer, recipientAddress, transferAmount, transferLoading, transferHash,
                errorToast, pc, kernelCalls, submissions, attempts, tx, kernelFault,
                caughtError, missingKeys>>
evalVars == <<gate, built, monitored, proxy, startup, sim, notif, bulk>>
offChainVars == <<evalVars, clientVars>>
vars == <<balances, allowances, transferAssessments, events, now, lastCall, krnlPayload, gate,
          built, monitored, proxy, bulk, notif, sim, startup,
          signer, recipientAddress, transferAmount, transferLoading, transferHash,
          errorToast, pc, kernelCalls, submissions, attempts, tx, kernelFault,
          caughtError, missingKeys>>

NoCall ==
    [fn |-> "none", caller |-> ZERO_ADDRESS, from |-> ZERO_ADDRESS, to |-> ZERO_ADDRESS,
     amount |-> 0, result |-> ""]

Call(fn, caller, from, to, amount) ==
    [fn |-> fn, caller |-> caller, from |-> from, to |-> to, amount |-> amount, result |-> ""]

\* constructor: _mint(msg.sender, initial supply); every mapping empty.
ContractInit ==
    /\ balances = [a \in Addresses |-> IF a = Deployer THEN InitialSupply ELSE 0]
    /\ allowances = [o \in Addresses |-> [s \in Addresses |-> 0]]
    /\ transferAssessments = [h \in {} |-> EmptyAssessment]
    /\ events = <<>>
    /\ now = 0
    /\ lastCall = NoCall

\* A reverted transaction: every storage write and every event is rolled
\* back; only the receipt tells the caller why.
Revert(call, reason) ==
    /\ lastCall' = [call EXCEPT !.result = reason]
    /\ UNCHANGED contractVars

\* ------------------------------------------------------------ KRNL.sol gate
\* modifier onlyAuthorized(krnlPayload, params): the signed parameters must
\* be byte-identical to the parameters of this call.
onlyAuthorized(payload, params) == payload.auth = params

\* --------------------------------------------------- checkTransferAllowed
\* for (i = 0; i < kernelResponses.length; i++) if (kernelId == 1657) ...
RECURSIVE FirstCompilotIndex(_, _)
FirstCompilotIndex(kernelResponses, i) ==
    IF i > Len(kernelResponses) THEN 0
    ELSE IF kernelResponses[i].kernelId = COMPILOT_KERNEL_ID THEN i
    ELSE FirstCompilotIndex(kernelResponses, i + 1)

\* checkTransferAllowed with the optional risk thresholds of the test script
\* applied on top of the status (a High level or a score above 90 denies).
checkTransferAllowedRiskGated(kernelResponses, from, to, amount, timestamp) ==
    LET i == FirstCompilotIndex(kernelResponses, 1)
    IN  IF i = 0
        THEN [allowed |-> FALSE, assessed |-> FALSE,
              transferHash |-> TransferHash(from, to, amount, timestamp),
              response |-> EmptyAssessment,
              event |-> [from |-> from, to |-> to, amount |-> amount, status |-> "",
                         allowed |-> FALSE, timestamp |-> timestamp]]
        ELSE LET response == kernelResponses[i].result
                 allowed == /\ response.payload.status = "approved"
                            /\ response.payload.riskLevel # "High"
                            /\ response.payload.riskScore <= 90
             IN  [allowed |-> allowed, assessed |-> TRUE,
                  transferHash |-> TransferHash(from, to, amount, timestamp),
                  response |-> response,
                  event |-> [from |-> from, to |-> to, amount |-> amount,
                             status |-> response.payload.status,
                             allowed |-> allowed, timestamp |-> timestamp]]

\* checkTransferAllowed refusing a transfer hash that already holds an
\* assessment (a replay guard keyed by the stored decision).
checkTransferAllowedOnce(kernelResponses, from, to, amount, timestamp) ==
    LET i == FirstCompilotIndex(kernelResponses, 1)
        used == TransferHash(from, to, amount, timestamp) \in DOMAIN transferAssessments
    IN  IF i = 0
        THEN [allowed |-> FALSE, assessed |-> FALSE,
              transferHash |-> TransferHash(from, to, amount, timestamp),
              response |-> EmptyAssessment,
              event |-> [from |-> from, to |-> to, amount |-> amount, status |-> "",
                         allowed |-> FALSE, timestamp |-> timestamp]]
        ELSE LET response == kernelResponses[i].result
                 allowed == response.payload.status = "approved" /\ ~used
             IN  [allowed |-> allowed, assessed |-> TRUE,
                  transferHash |-> TransferHash(from, to, amount, timestamp),
                  response |-> response,
                  event |-> [from |-> from, to |-> to, amount |-> amount,
                             status |-> response.payload.status,
                             allowed |-> allowed, timestamp |-> timestamp]]

\* checkTransferAllowed hashing (from, to, amount) without block.timestamp.
checkTransferAllowedHashNoTimestamp(kernelResponses, from, to, amount, timestamp) ==
    LET i == FirstCompilotIndex(kernelResponses, 1)
    IN  IF i = 0
        THEN [allowed |-> FALSE, assessed |-> FALSE,
              transferHash |-> <<from, to, amount>>,
              response |-> EmptyAssessment,
              event |-> [from |-> from, to |-> to, amount |-> amount, status |-> "",
                         allowed |-> FALSE, timestamp |-> timestamp]]
        ELSE LET response == kernelResponses[i].result
                 allowed == response.payload.status = "approved"
             IN  [allowed |-> allowed, assessed |-> TRUE,
                  transferHash |-> <<from, to, amount>>,
                  response |-> response,
                  event |-> [from |-> from, to |-> to, amount |-> amount,
                             status |-> response.payload.status,
                             allowed |-> allowed, timestamp |-> timestamp]]

\* The verdict and the writes of checkTransferAllowed: the assessment stored
\* under the transfer hash and the TransferAssessed event.  assessed is
\* FALSE when the loop ends without a 1657 entry (return false, no write).
checkTransferAllowedAnyApproved(kernelResponses, from, to, amount, timestamp) ==
    LET approved == { j \in DOMAIN kernelResponses :
                        /\ kernelResponses[j].kernelId = COMPILOT_KERNEL_ID
                        /\ kernelResponses[j].result.payload.status = "approved" }
        i == IF approved = {} THEN FirstCompilotIndex(kernelResponses, 1)
             ELSE CHOOSE j \in approved : \A k \in approved : j <= k
    IN  IF i = 0
        THEN [allowed |-> FALSE, assessed |-> FALSE,
              transferHash |-> TransferHash(from, to, amount, timestamp),
              response |-> EmptyAssessment,
              event |-> [from |-> from, to |-> to, amount |-> amount, status |-> "",
                         allowed |-> FALSE, timestamp |-> timestamp]]
        ELSE LET response == kernelResponses[i].result
                 allowed == response.payload.status = "approved"
             IN  [allowed |-> allowed, assessed |-> TRUE,
                  transferHash |-> TransferHash(from, to, amount, timestamp),
                  response |-> response,
                  event |-> [from |-> from, to |-> to, amount |-> amount,
                             status |-> response.payload.status,
                             allowed |-> allowed, timestamp |-> timestamp]]

checkTransferAllowed(kernelResponses, from, to, amount, timestamp) ==
    LET i == FirstCompilotIndex(kernelResponses, 1)
    IN  IF i = 0
        THEN [allowed |-> FALSE, assessed |-> FALSE,
              transferHash |-> TransferHash(from, to, amount, timestamp),
              response |-> EmptyAssessment,
              event |-> [from |-> from, to |-> to, amount |-> amount, status |-> "",
                         allowed |-> FALSE, timestamp |-> timestamp]]
        ELSE LET response == kernelResponses[i].result
                 allowed == response.payload.status = "approved"
             IN  [allowed |-> allowed, assessed |-> TRUE,
                  transferHash |-> TransferHash(from, to, amount, timestamp),
                  response |-> response,
                  event |-> [from |-> from, to |-> to, amount |-> amount,
                             status |-> response.payload.status,
                             allowed |-> allowed, timestamp |-> timestamp]]

\* Decisions handed to the gate alone: every status with every risk level
\* and a risk score on either side of the test script's threshold.
GateRiskScores == {15, 95}

GatePayloads ==
    { WebhookPayload(st, rl, sc, "", "tx-gate") :
        st \in Statuses, rl \in RiskLevels, sc \in GateRiskScores }

GateKernelResponses ==
    { KernelResponse(COMPILOT_KERNEL_ID, WebhookResponse(p)) : p \in GatePayloads }
    \cup { KernelResponse(OtherKernelId, WebhookResponse(p)) :
              p \in { q \in GatePayloads : q.status = "approved" } }

GateResponseLists == SeqsUpTo(GateKernelResponses, MaxResponses)

NoGate ==
    [kernelResponses |-> <<>>, from |-> ZERO_ADDRESS, to |-> ZERO_ADDRESS, amount |-> 0,
     ran |-> FALSE, out |-> checkTransferAllowed(<<>>, ZERO_ADDRESS, ZERO_ADDRESS, 0, 0)]

\* getTransferAssessment(transferHash)
\* Reading a mapping: an unset key reads as the empty struct.
ReadAssessment(assessments, key) ==
    IF key \in DOMAIN assessments
    THEN assessments[key]
    ELSE EmptyAssessment

getTransferAssessment(key) == ReadAssessment(transferAssessments, key)

\* transferAssessments[transferHash] = response
StoreAssessment(assessments, key, response) ==
    [h \in DOMAIN assessments \cup {key} |->
        IF h = key THEN response ELSE assessments[h]]

\* ----------------------------------------------------------- ERC20 (base)
\* _transfer that credits the recipient and forgets the debit.
ERC20TransferCreditOnly(bal, from, to, amount) == [bal EXCEPT ![to] = @ + amount]

\* ERC20._transfer: debit, then credit.
ERC20Transfer(bal, from, to, amount) ==
    LET debited == [bal EXCEPT ![from] = @ - amount]
    IN  [debited EXCEPT ![to] = @ + amount]

\* ------------------------------------------------------------ entry points
\* transfer as ERC20 defines it, not overridden.
transferERC20(caller, to, amount) ==
    LET call == Call("transfer", caller, caller, to, amount)
    IN  IF to = ZERO_ADDRESS
        THEN Revert(call, "ERC20: transfer to the zero address")
        ELSE IF balances[caller] < amount
        THEN Revert(call, "ERC20: transfer amount exceeds balance")
        ELSE /\ balances' = ERC20Transfer(balances, caller, to, amount)
             /\ lastCall' = [call EXCEPT !.result = "ok"]
             /\ UNCHANGED <<allowances, transferAssessments, events, now>>

\* function transfer(address to, uint256 amount): always reverts.
transfer(caller, to, amount) ==
    Revert(Call("transfer", caller, caller, to, amount), "Use transfer with KRNL payload")

\* function transferFrom(address, address, uint256): always reverts.
transferFrom(caller, from, to, amount) ==
    Revert(Call("transferFrom", caller, from, to, amount), "Use transferFrom with KRNL payload")

\* Parameters that leave the amount out of what the signature covers.
TransferWithKRNLParamsIgnoringAmount(to, amount) == AbiEncode2(to, MaxAmount)

\* The parameters transferWithKRNL hands to onlyAuthorized.
TransferWithKRNLParams(to, amount) == AbiEncode2(to, amount)

\* transferWithKRNL without the onlyAuthorized modifier.
transferWithKRNLNoModifier(caller, to, amount, payload) ==
    LET call == Call("transferWithKRNL", caller, caller, to, amount)
        chk == checkTransferAllowed(payload.kernelResponses, caller, to, amount, now)
    IN  IF to = ZERO_ADDRESS
        THEN Revert(call, "ERC20: transfer to the zero address")
        ELSE IF ~chk.allowed
        THEN Revert(call, "Transfer denied due to risk assessment")
        ELSE IF balances[caller] < amount
        THEN Revert(call, "ERC20: transfer amount exceeds balance")
        ELSE /\ transferAssessments' = StoreAssessment(transferAssessments, chk.transferHash, chk.response)
             /\ events' = Append(events, chk.event)
             /\ balances' = ERC20Transfer(balances, caller, to, amount)
             /\ lastCall' = [call EXCEPT !.result = "ok"]
             /\ UNCHANGED <<allowances, now>>

\* transferWithKRNL that reverts with the reason of the decision when the
\* decision carries one.
transferWithKRNLRevertsWithReason(caller, to, amount, payload) ==
    LET call == Call("transferWithKRNL", caller, caller, to, amount)
        chk == checkTransferAllowed(payload.kernelResponses, caller, to, amount, now)
    IN  IF ~onlyAuthorized(payload, TransferWithKRNLParams(to, amount))
        THEN Revert(call, "AuthorizationMismatch")
        ELSE IF to = ZERO_ADDRESS
        THEN Revert(call, "ERC20: transfer to the zero address")
        ELSE IF ~chk.allowed
        THEN Revert(call, IF chk.assessed /\ chk.response.payload.reason # ""
                          THEN chk.response.payload.reason
                          ELSE "Transfer denied due to risk assessment")
        ELSE IF balances[caller] < amount
        THEN Revert(call, "ERC20: transfer amount exceeds balance")
        ELSE /\ transferAssessments' = StoreAssessment(transferAssessments, chk.transferHash, chk.response)
             /\ events' = Append(events, chk.event)
             /\ balances' = ERC20Transfer(balances, caller, to, amount)
             /\ lastCall' = [call EXCEPT !.result = "ok"]
             /\ UNCHANGED <<allowances, now>>

\* transferWithKRNL calling checkTransferAllowed without requiring its verdict.
transferWithKRNLNoRequire(caller, to, amount, payload) ==
    LET call == Call("transferWithKRNL", caller, caller, to, amount)
        chk == checkTransferAllowed(payload.kernelResponses, caller, to, amount, now)
    IN  IF ~onlyAuthorized(payload, TransferWithKRNLParams(to, amount))
        THEN Revert(call, "AuthorizationMismatch")
        ELSE IF to = ZERO_ADDRESS
        THEN Revert(call, "ERC20: transfer to the zero address")
        ELSE IF balances[caller] < amount
        THEN Revert(call, "ERC20: transfer amount exceeds balance")
        ELSE /\ transferAssessments' =
                    IF chk.assessed
                    THEN StoreAssessment(transferAssessments, chk.transferHash, chk.response)
                    ELSE transferAssessments
             /\ events' = IF chk.assessed THEN Append(events, chk.event) ELSE events
             /\ balances' = ERC20Transfer(balances, caller, to, amount)
             /\ lastCall' = [call EXCEPT !.result = "ok"]
             /\ UNCHANGED <<allowances, now>>

\* function transferWithKRNL(address to, uint256 amount, KrnlPayload krnlPayload)
transferWithKRNL(caller, to, amount, payload) ==
    LET call == Call("transferWithKRNL", caller, caller, to, amount)
        chk == checkTransferAllowed(payload.kernelResponses, caller, to, amount, now)
    IN  IF ~onlyAuthorized(payload, TransferWithKRNLParams(to, amount))
        THEN Revert(call, "AuthorizationMismatch")
        ELSE IF to = ZERO_ADDRESS
        THEN Revert(call, "ERC20: transfer to the zero address")
        ELSE IF ~chk.allowed
        THEN Revert(call, "Transfer denied due to risk assessment")
        ELSE IF balances[caller] < amount
        THEN Revert(call, "ERC20: transfer amount exceeds balance")
        ELSE /\ transferAssessments' = StoreAssessment(transferAssessments, chk.transferHash, chk.response)
             /\ events' = Append(events, chk.event)
             /\ balances' = ERC20Transfer(balances, caller, to, amount)
             /\ lastCall' = [call EXCEPT !.result = "ok"]
             /\ UNCHANGED <<allowances, now>>

\* ERC20.approve(spender, amount), inherited unchanged.
approve(caller, spender, amount) ==
    LET call == Call("approve", caller, caller, spender, amount)
    IN  IF spender = ZERO_ADDRESS
        THEN Revert(call, "ERC20: approve to the zero address")
        ELSE /\ allowances' = [allowances EXCEPT ![caller][spender] = amount]
             /\ lastCall' = [call EXCEPT !.result = "ok"]
             /\ UNCHANGED <<balances, transferAssessments, events, now>>

\* type(uint256).max, the allowance that stands for an unlimited approval:
\* the largest number of the model.
MaxUint256 == 2147483647

ERC20SpendAllowanceAlways(allow, owner, spender, amount) ==
    [allow EXCEPT ![owner][spender] = @ - amount]

\* ERC20._spendAllowance, once the allowance is known to suffice: an
\* unlimited allowance is left as it is.
ERC20SpendAllowance(allow, owner, spender, amount) ==
    IF allow[owner][spender] = MaxUint256 THEN allow
    ELSE [allow EXCEPT ![owner][spender] = @ - amount]

\* The amounts approve is called with.
ApproveAmounts == Amounts \cup {MaxUint256}

\* The parameters transferFromWithKRNL hands to onlyAuthorized.
TransferFromWithKRNLParams(from, to, amount) == AbiEncode3(from, to, amount)

\* function transferFromWithKRNL(address from, address to, uint256 amount,
\*                               KrnlPayload krnlPayload)
transferFromWithKRNL(caller, from, to, amount, payload) ==
    LET call == Call("transferFromWithKRNL", caller, from, to, amount)
        chk == checkTransferAllowed(payload.kernelResponses, from, to, amount, now)
    IN  IF ~onlyAuthorized(payload, TransferFromWithKRNLParams(from, to, amount))
        THEN Revert(call, "AuthorizationMismatch")
        ELSE IF from = ZERO_ADDRESS
        THEN Revert(call, "ERC20: transfer from the zero address")
        ELSE IF to = ZERO_ADDRESS
        THEN Revert(call, "ERC20: transfer to the zero address")
        ELSE IF ~chk.allowed
        THEN Revert(call, "Transfer denied due to risk assessment")
        ELSE IF allowances[from][caller] < amount
        THEN Revert(call, "ERC20: insufficient allowance")
        ELSE IF balances[from] < amount
        THEN Revert(call, "ERC20: transfer amount exceeds balance")
        ELSE /\ transferAssessments' = StoreAssessment(transferAssessments, chk.transferHash, chk.response)
             /\ events' = Append(events, chk.event)
             /\ allowances' = ERC20SpendAllowance(allowances, from, caller, amount)
             /\ balances' = ERC20Transfer(balances, from, to, amount)
             /\ lastCall' = [call EXCEPT !.result = "ok"]
             /\ UNCHANGED now

\* ----------------------------------------------------------------- actions
\* executeKernels returns the bundle for one transfer intent.
KernelIssue ==
    /\ krnlPayload = NoPayload
    /\ krnlPayload' \in KrnlPayloads
    /\ UNCHANGED <<contractVars, lastCall, offChainVars>>

CallTransfer ==
    /\ lastCall = NoCall
    /\ \E caller \in Accounts, to \in Addresses, amount \in Amounts :
           transfer(caller, to, amount)
    /\ UNCHANGED <<krnlPayload, offChainVars>>

CallTransferFrom ==
    /\ lastCall = NoCall
    /\ \E caller \in Accounts, from \in Addresses, to \in Addresses, amount \in Amounts :
           transferFrom(caller, from, to, amount)
    /\ UNCHANGED <<krnlPayload, offChainVars>>

CallTransferWithKRNL ==
    /\ lastCall = NoCall
    /\ krnlPayload # NoPayload
    /\ Len(events) < MaxTransfers
    /\ \E caller \in Accounts, to \in Addresses, amount \in Amounts :
           transferWithKRNL(caller, to, amount, krnlPayload)
    /\ UNCHANGED <<krnlPayload, offChainVars>>

\* await tx.wait(): the caller has seen the receipt.
TxWait ==
    /\ lastCall # NoCall
    /\ lastCall' = NoCall
    /\ UNCHANGED <<contractVars, krnlPayload, offChainVars>>

\* A later block.
Tick ==
    /\ now < MaxTime
    /\ now' = now + 1
    /\ UNCHANGED <<balances, allowances, transferAssessments, events, lastCall, krnlPayload, offChainVars>>

\* executeKernels returns a bundle signed for a transferFromWithKRNL call.
KernelIssueFrom ==
    /\ krnlPayload = NoPayload
    /\ krnlPayload' \in KrnlPayloadsFrom
    /\ UNCHANGED <<contractVars, lastCall, offChainVars>>

CallApprove ==
    /\ lastCall = NoCall
    /\ Cardinality({ os \in Accounts \X Accounts : allowances[os[1]][os[2]] > 0 }) < MaxApprovals
    /\ \E caller \in Accounts, spender \in Addresses, amount \in ApproveAmounts :
           approve(caller, spender, amount)
    /\ UNCHANGED <<krnlPayload, offChainVars>>

CallTransferFromWithKRNL ==
    /\ lastCall = NoCall
    /\ krnlPayload # NoPayload
    /\ Len(events) < MaxTransfers
    /\ \E caller \in Accounts, from \in Addresses, to \in Addresses, amount \in Amounts :
           transferFromWithKRNL(caller, from, to, amount, krnlPayload)
    /\ UNCHANGED <<krnlPayload, offChainVars>>

\* ================================================== client: TrueMoneyMobile
\* A JavaScript number as far as the flow tells numbers apart: NaN, a
\* number of tenths of a token (val), or a positive fraction below 1e-6,
\* which Number.prototype.toString prints in exponent notation ("1e-7").
Num(v) == [nan |-> FALSE, tiny |-> FALSE, val |-> v]
NaN == [nan |-> TRUE, tiny |-> FALSE, val |-> 0]
TinyNum == [nan |-> FALSE, tiny |-> TRUE, val |-> 0]

\* Text of the amount field (an <input type="number">): "", "0.0000001",
\* or the decimal text of val tenths ("0", "0.1", "0.2", ...).
AmountText(kind, val) == [kind |-> kind, val |-> val]
AmountInputs ==
    {AmountText("empty", 0), AmountText("tiny", 0)}
        \cup { AmountText("number", v) : v \in 0..MaxAmount }

\* Text of the recipient field: "", text that is no address, or an address.
RecipientText(kind, addr) == [kind |-> kind, addr |-> addr]
RecipientInputs ==
    {RecipientText("empty", ZERO_ADDRESS), RecipientText("malformed", ZERO_ADDRESS)}
        \cup { RecipientText("address", a) : a \in Addresses }

parseFloat(text) ==
    IF text.kind = "empty" THEN NaN
    ELSE IF text.kind = "tiny" THEN TinyNum
    ELSE Num(text.val)

Number(text) ==
    IF text.kind = "empty" THEN Num(0)
    ELSE IF text.kind = "tiny" THEN TinyNum
    ELSE Num(text.val)

\* !s for a string, !n for a number, n <= 0 (false for NaN).
EmptyText(text) == text.kind = "empty"
Falsy(n) == n.nan \/ (~n.tiny /\ n.val = 0)
LessEqZero(n) == ~n.nan /\ ~n.tiny /\ n.val <= 0

isAddress(text) == text.kind = "address"

\* toWei(amount) = parseUnits(amount.toString(), 18): throws unless the
\* printed number is plain decimal text; otherwise the decimal point moves
\* 18 places. The smallest amount of the model (a unit of wei) is a part
\* of a tenth of a token: a tenth is WeiPerTenth units.
WeiPerTenth == 2
toWei(n) ==
    IF n.nan \/ n.tiny THEN [ok |-> FALSE, wei |-> 0]
    ELSE [ok |-> TRUE, wei |-> n.val * WeiPerTenth]

\* fromWei(amount) = formatUnits(amount, 18): the decimal text of the
\* amount, as tenths of a token and the units of wei beyond them.
fromWei(wei) == [tenths |-> wei \div WeiPerTenth, rest |-> wei % WeiPerTenth]

\* The connectedAddress prop: the account of the connected wallet.
connectedAddress == Deployer

\* new Error(message), and the errors the kernel endpoint or the transport
\* can reject with (one of them with an empty message).
Error(message) == [name |-> "Error", message |-> message]
NoError == [name |-> "", message |-> ""]
KernelFaults ==
    { [name |-> "NetworkError", message |-> "failed to fetch"],
      [name |-> "Error", message |-> "kernel endpoint error"],
      [name |-> "Error", message |-> ""] }

\* The keys processTokenTransfer reads from the kernel's response.
ResponseKeys == {"auth", "kernel_responses", "kernel_params"}

NoHash == 0
NoTx == [hash |-> NoHash, to |-> ZERO_ADDRESS, amount |-> 0, status |-> "none"]

\* ------------------------------------------------- attestation request builder
\* Math.random().toString(36): "0" for 0, "0.i" for 0.5, and for most
\* values "0." followed by ten or more digits of base 36.
RandomTexts ==
    { <<"0">>,
      <<"0", ".", "i">>,
      <<"0", ".", "4", "f", "z", "y", "o", "8", "2", "m", "v", "y">> }

\* s.substring(start, end): the characters at indices start .. end - 1,
\* counted from 0, as far as the string has them.
Substring(s, start, end) ==
    SubSeq(s, start + 1, IF end < Len(s) THEN end ELSE Len(s))

\* Date.now()
Millis == {1, 2}

\* `tx-${Date.now()}-${Math.random().toString(36).substring(2, 10)}`
\* A transaction id is kept by its parts; an id the caller wrote has the
\* prefix the caller chose, no id at all has none.
GeneratedId(millis, random) ==
    [prefix |-> "tx-", millis |-> millis, suffix |-> Substring(random, 2, 10)]
SuppliedId(text) == [prefix |-> text, millis |-> 0, suffix |-> <<>>]
NoId == SuppliedId("")

\* The amount every request body of executeTokenTransfer carries: 0.5.
BodyAmount == Num(5)

NoRequest ==
    [senderAddress |-> RecipientText("empty", ZERO_ADDRESS), externalTransactionId |-> NoId,
     amount |-> NaN, functionParams |-> <<>>]

Threw(error) == [threw |-> TRUE, error |-> error, request |-> NoRequest]
Requested(request) == [threw |-> FALSE, error |-> NoError, request |-> request]

\* executeTokenTransfer without the check of the amount.
executeTokenTransferNoAmountCheck(sender, recipient, amount, millis, random) ==
    IF EmptyText(sender) \/ EmptyText(recipient)
    THEN Threw(Error("Sender and recipient addresses are required"))
    ELSE IF ~toWei(amount).ok \/ toWei(amount).wei < 0
    THEN Threw([name |-> "TypeError", message |-> "invalid FixedNumber string value"])
    ELSE IF ~isAddress(recipient)
    THEN Threw([name |-> "TypeError", message |-> "invalid address"])
    ELSE Requested([senderAddress |-> sender,
                    externalTransactionId |-> GeneratedId(millis, random),
                    amount |-> BodyAmount,
                    functionParams |-> AbiEncode2(recipient.addr, toWei(amount).wei)])

\* executeTokenTransfer that encodes the amount as given, not in wei.
executeTokenTransferRawAmount(sender, recipient, amount, millis, random) ==
    IF EmptyText(sender) \/ EmptyText(recipient)
    THEN Threw(Error("Sender and recipient addresses are required"))
    ELSE IF Falsy(amount) \/ LessEqZero(amount)
    THEN Threw(Error("Amount must be greater than 0"))
    ELSE IF ~toWei(amount).ok
    THEN Threw([name |-> "TypeError", message |-> "invalid FixedNumber string value"])
    ELSE IF ~isAddress(recipient)
    THEN Threw([name |-> "TypeError", message |-> "invalid address"])
    ELSE Requested([senderAddress |-> sender,
                    externalTransactionId |-> GeneratedId(millis, random),
                    amount |-> BodyAmount,
                    functionParams |-> AbiEncode2(recipient.addr, amount.val)])

\* executeTokenTransfer(sender, recipient, amount) up to the request it
\* sends with executeKernels: the error it throws, or the request.
executeTokenTransfer(sender, recipient, amount, millis, random) ==
    IF EmptyText(sender) \/ EmptyText(recipient)
    THEN Threw(Error("Sender and recipient addresses are required"))
    ELSE IF Falsy(amount) \/ LessEqZero(amount)
    THEN Threw(Error("Amount must be greater than 0"))
    ELSE IF ~toWei(amount).ok
    THEN Threw([name |-> "TypeError", message |-> "invalid FixedNumber string value"])
    ELSE IF ~isAddress(recipient)
    THEN Threw([name |-> "TypeError", message |-> "invalid address"])
    ELSE Requested([senderAddress |-> sender,
                    externalTransactionId |-> GeneratedId(millis, random),
                    amount |-> BodyAmount,
                    functionParams |-> AbiEncode2(recipient.addr, toWei(amount).wei)])

\* The arguments a caller can hand to the builder.
SenderInputs == RecipientInputs
NumberInputs == {NaN, TinyNum} \cup { Num(v) : v \in (-1)..MaxAmount }

\* The arguments processTokenTransfer(executeResult, recipient, amount,
\* signer) calls contract.transferWithKRNL with.
ContractCallArgs(recipient, amount) ==
    [to |-> recipient.addr, amount |-> toWei(amount).wei]

NoBuilt ==
    [ran |-> FALSE, sender |-> RecipientText("empty", ZERO_ADDRESS),
     recipient |-> RecipientText("empty", ZERO_ADDRESS), amount |-> NaN,
     out |-> Threw(NoError)]

\* ------------------------------------------------ executeKrnl and its relay
\* abi.encode(["string", "uint256", "address"], [id, amount, address]): the
\* head holds the offset of the string and the two static words, the tail
\* holds the string.
AbiEncodeKrnl(id, amount, address) ==
    Word(3 * WordLen) \o Word(amount) \o Word(address) \o <<id>>

\* The string argument of such a blob.
AbiDecodeKrnlId(blob) == blob[FromWord(SubSeq(blob, 1, WordLen)) + 1]

\* The amount executeKrnl falls back to: 0.1.
DefaultAmount == Num(1)

\* The transactionData object of the caller. isNull: no object at all;
\* amount NaN stands for a missing amount; hasInfo: transactionInfo exists.
TransactionData(isNull, externalTransactionId, amount, hasInfo, infoAmount, address) ==
    [isNull |-> isNull, externalTransactionId |-> externalTransactionId, amount |-> amount,
     hasInfo |-> hasInfo, infoAmount |-> infoAmount, address |-> address]

NoAddress == RecipientText("empty", ZERO_ADDRESS)

TransactionDataInputs ==
    { TransactionData(isNull, id, amount, hasInfo, NaN, NoAddress) :
        isNull \in BOOLEAN, id \in {NoId, SuppliedId("tx-caller")},
        amount \in {NaN, TinyNum} \cup { Num(v) : v \in 0..MaxAmount },
        hasInfo \in BOOLEAN }

KrnlThrew(error, transactionData) ==
    [threw |-> TRUE, error |-> error, request |-> NoRequest,
     transactionData |-> transactionData]

\* executeKrnl that puts a freshly generated id into the request body.
executeKrnlFreshBodyId(address, transactionData, millis, random) ==
    IF EmptyText(address)
    THEN KrnlThrew(Error("Wallet address is required"), transactionData)
    ELSE IF transactionData.isNull \/ transactionData.externalTransactionId = NoId
    THEN KrnlThrew(Error("Transaction data with externalTransactionId is required"),
                   transactionData)
    ELSE
      LET uniqueTransactionId == transactionData.externalTransactionId
          transactionAmount ==
              IF Falsy(transactionData.amount) THEN DefaultAmount ELSE transactionData.amount
          stored == [transactionData EXCEPT !.externalTransactionId = uniqueTransactionId,
                                            !.hasInfo = TRUE,
                                            !.infoAmount = transactionAmount,
                                            !.address = address]
      IN  IF ~toWei(transactionAmount).ok
          THEN KrnlThrew([name |-> "TypeError", message |-> "invalid FixedNumber string value"],
                         stored)
          ELSE IF ~isAddress(address)
          THEN KrnlThrew([name |-> "TypeError", message |-> "invalid address"], stored)
          ELSE [threw |-> FALSE, error |-> NoError,
                request |-> [senderAddress |-> address,
                             externalTransactionId |-> GeneratedId(millis, random),
                             amount |-> transactionAmount,
                             functionParams |->
                                 AbiEncodeKrnl(uniqueTransactionId,
                                               toWei(transactionAmount).wei, address.addr)],
                transactionData |-> stored]

\* executeKrnl(address, transactionData) up to the request it sends with
\* executeKernels: the error or the request, and transactionData as the
\* call leaves it.
executeKrnl(address, transactionData, millis, random) ==
    IF EmptyText(address)
    THEN KrnlThrew(Error("Wallet address is required"), transactionData)
    ELSE IF transactionData.isNull \/ transactionData.externalTransactionId = NoId
    THEN KrnlThrew(Error("Transaction data with externalTransactionId is required"),
                   transactionData)
    ELSE
      LET uniqueTransactionId ==
              IF transactionData.externalTransactionId # NoId
              THEN transactionData.externalTransactionId
              ELSE GeneratedId(millis, random)
          transactionAmount ==
              IF Falsy(transactionData.amount) THEN DefaultAmount ELSE transactionData.amount
          stored == [transactionData EXCEPT !.externalTransactionId = uniqueTransactionId,
                                            !.hasInfo = TRUE,
                                            !.infoAmount = transactionAmount,
                                            !.address = address]
      IN  IF ~toWei(transactionAmount).ok
          THEN KrnlThrew([name |-> "TypeError", message |-> "invalid FixedNumber string value"],
                         stored)
          ELSE IF ~isAddress(address)
          THEN KrnlThrew([name |-> "TypeError", message |-> "invalid address"], stored)
          ELSE [threw |-> FALSE, error |-> NoError,
                request |-> [senderAddress |-> address,
                             externalTransactionId |-> uniqueTransactionId,
                             amount |-> transactionAmount,
                             functionParams |->
                                 AbiEncodeKrnl(uniqueTransactionId,
                                               toWei(transactionAmount).wei, address.addr)],
                transactionData |-> stored]

NoUnstake ==
    [externalTransactionId |-> NoId, amount |-> 0, beneficiary |-> NoAddress]

\* processMonitoredTransaction(executeResult, transactionData, signer) up to
\* contract.unstake: the error it throws, or the arguments of unstake.
\* signerAddress is what signer.getAddress() gives.
processMonitoredTransaction(transactionData, hasSigner, signerAddress) ==
    IF ~hasSigner
    THEN [threw |-> TRUE, error |-> Error("Signer is required"), unstake |-> NoUnstake]
    ELSE IF transactionData.isNull \/ transactionData.externalTransactionId = NoId
    THEN [threw |-> TRUE,
          error |-> Error("Transaction data with externalTransactionId is required"),
          unstake |-> NoUnstake]
    ELSE IF ~transactionData.hasInfo
    THEN [threw |-> TRUE,
          error |-> [name |-> "TypeError", message |-> "Cannot read properties of undefined"],
          unstake |-> NoUnstake]
    ELSE IF ~toWei(transactionData.infoAmount).ok
    THEN [threw |-> TRUE,
          error |-> [name |-> "TypeError", message |-> "invalid FixedNumber string value"],
          unstake |-> NoUnstake]
    ELSE [threw |-> FALSE, error |-> NoError,
          unstake |-> [externalTransactionId |-> transactionData.externalTransactionId,
                       amount |-> toWei(transactionData.infoAmount).wei,
                       beneficiary |-> IF EmptyText(transactionData.address)
                                       THEN signerAddress
                                       ELSE transactionData.address]]

NoMonitored ==
    [pc |-> "idle", address |-> NoAddress,
     given |-> TransactionData(TRUE, NoId, NaN, FALSE, NaN, NoAddress),
     krnl |-> KrnlThrew(NoError, TransactionData(TRUE, NoId, NaN, FALSE, NaN, NoAddress)),
     relay |-> [threw |-> FALSE, error |-> NoError, unstake |-> NoUnstake]]

ClientInit ==
    /\ signer = FALSE
    /\ recipientAddress = RecipientText("empty", ZERO_ADDRESS)
    /\ transferAmount = AmountText("empty", 0)
    /\ transferLoading = FALSE
    /\ transferHash = NoHash
    /\ errorToast = ""
    /\ pc = "idle"
    /\ kernelCalls = 0
    /\ submissions = 0
    /\ attempts = 0
    /\ tx = NoTx
    /\ kernelFault = NoError
    /\ caughtError = NoError
    /\ missingKeys = {}

\* The wallet connects: the signer prop becomes non-null.
ConnectWallet ==
    /\ ~signer
    /\ signer' = TRUE
    /\ UNCHANGED <<contractVars, lastCall, krnlPayload, evalVars, recipientAddress,
                   transferAmount, transferLoading, transferHash, errorToast, pc,
                   kernelCalls, submissions, attempts, tx,
                   kernelFault, caughtError, missingKeys>>

\* The two form fields, disabled while an attempt runs.
SetRecipientAddress ==
    /\ ~transferLoading
    /\ attempts < MaxAttempts
    /\ recipientAddress' \in RecipientInputs \ {recipientAddress}
    /\ UNCHANGED <<contractVars, lastCall, krnlPayload, evalVars, signer,
                   transferAmount, transferLoading, transferHash, errorToast, pc,
                   kernelCalls, submissions, attempts, tx,
                   kernelFault, caughtError, missingKeys>>

SetTransferAmount ==
    /\ ~transferLoading
    /\ attempts < MaxAttempts
    /\ transferAmount' \in AmountInputs \ {transferAmount}
    /\ UNCHANGED <<contractVars, lastCall, krnlPayload, evalVars, signer,
                   recipientAddress, transferLoading, transferHash, errorToast, pc,
                   kernelCalls, submissions, attempts, tx,
                   kernelFault, caughtError, missingKeys>>

\* showErrorToast(message); return  -- before the try block.
EarlyReturn(message) ==
    /\ errorToast' = message
    /\ pc' = "returned"
    /\ UNCHANGED transferLoading

\* A catch block that starts the attempt over instead of ending it.
CatchRetry(error) ==
    /\ caughtError' = error
    /\ errorToast' = (IF error.message = "" THEN "Transfer failed" ELSE error.message)
    /\ IF kernelCalls < 2
       THEN pc' = "preparing" /\ UNCHANGED transferLoading
       ELSE pc' = "failed" /\ transferLoading' = FALSE

\* catch (error) { showErrorToast(error.message || "Transfer failed") }
\* finally { setTransferLoading(false) }
Catch(error) ==
    /\ caughtError' = error
    /\ errorToast' = (IF error.message = "" THEN "Transfer failed" ELSE error.message)
    /\ transferLoading' = FALSE
    /\ pc' = "failed"

\* handleTokenTransfer up to its first await. The button is disabled while an
\* attempt runs or a field is empty.
HandleTokenTransfer ==
    /\ ~transferLoading
    /\ ~EmptyText(recipientAddress)
    /\ ~EmptyText(transferAmount)
    /\ attempts < MaxAttempts
    /\ attempts' = attempts + 1
    /\ kernelCalls' = 0
    /\ submissions' = 0
    /\ krnlPayload' = NoPayload
    /\ tx' = NoTx
    /\ kernelFault' = NoError
    /\ caughtError' = NoError
    /\ missingKeys' = {}
    /\ IF ~signer
       THEN EarlyReturn("Please connect your wallet first")
       ELSE IF EmptyText(recipientAddress) \/ ~isAddress(recipientAddress)
       THEN EarlyReturn("Please enter a valid recipient address")
       ELSE IF EmptyText(transferAmount) \/ LessEqZero(parseFloat(transferAmount))
       THEN EarlyReturn("Please enter a valid amount")
       ELSE /\ transferLoading' = TRUE
            /\ pc' = "preparing"
            /\ UNCHANGED errorToast
    /\ UNCHANGED <<contractVars, lastCall, evalVars, signer, recipientAddress, transferAmount,
                   transferHash>>

\* executeTokenTransfer(connectedAddress, recipientAddress, Number(transferAmount))
\* up to the request to the kernel endpoint.
ExecuteTokenTransfer ==
    /\ pc = "preparing"
    /\ \E millis \in Millis, random \in RandomTexts :
         LET sender == IF signer THEN RecipientText("address", connectedAddress)
                       ELSE RecipientText("empty", ZERO_ADDRESS)
             out == executeTokenTransfer(sender, recipientAddress, Number(transferAmount),
                                         millis, random)
         IN  IF out.threw
             THEN Catch(out.error) /\ UNCHANGED kernelCalls
             ELSE /\ kernelCalls' = kernelCalls + 1
                  /\ pc' = "authorizing"
                  /\ UNCHANGED <<errorToast, transferLoading, caughtError>>
    /\ UNCHANGED <<contractVars, lastCall, krnlPayload, evalVars, signer, recipientAddress,
                   transferAmount, transferHash, submissions, attempts, tx, kernelFault,
                   missingKeys>>

\* functionParams: abi.encode(["address", "uint256"], [recipient, toWei(amount)])
functionParams ==
    AbiEncode2(recipientAddress.addr, toWei(Number(transferAmount)).wei)

\* A key that is absent from an object reads as undefined.
UndefinedBytes == <<-2>>

\* The kernel's response as processTokenTransfer reads it: the keys in
\* missing are absent from it.
ExecuteResult(payload, missing) ==
    [auth |-> IF "auth" \in missing THEN UndefinedBytes ELSE payload.auth,
     kernelResponses |-> IF "kernel_responses" \in missing THEN <<>>
                         ELSE payload.kernelResponses]

\* executeKernels resolves: a bundle signed for functionParams, or a
\* response that lacks some of the keys of a bundle.
KernelReturn ==
    /\ pc = "authorizing"
    /\ \E kernelResponses \in KernelResponseLists, missing \in SUBSET ResponseKeys :
           /\ krnlPayload' = ExecuteResult([auth |-> functionParams,
                                            kernelResponses |-> kernelResponses], missing)
           /\ missingKeys' = missing
    /\ pc' = "sending"
    /\ UNCHANGED <<contractVars, lastCall, evalVars, signer, recipientAddress, transferAmount,
                   transferLoading, transferHash, errorToast, kernelCalls, submissions,
                   attempts, tx, kernelFault, caughtError>>

\* executeTokenTransfer that wraps a rejection of executeKernels in an
\* error of its own.
executeTokenTransferRejectionWrapped(fault) == Error("KRNL execution failed")

\* const krnlPayload = await krnlProvider.executeKernels(...) stands in no
\* try block: a rejection leaves executeTokenTransfer as it came.
executeTokenTransferRejection(fault) == fault

\* executeKernels rejects (network or endpoint error).
KernelError ==
    /\ pc = "authorizing"
    /\ \E fault \in KernelFaults :
           /\ kernelFault' = fault
           /\ Catch(executeTokenTransferRejection(fault))
    /\ UNCHANGED <<contractVars, lastCall, krnlPayload, evalVars, signer, recipientAddress,
                   transferAmount, transferHash, kernelCalls, submissions, attempts, tx,
                   missingKeys>>

\* processTokenTransfer up to the return of contract.transferWithKRNL: the
\* transaction is sent.
ProcessTokenTransfer ==
    /\ pc = "sending"
    /\ IF ~signer
       THEN Catch(Error("Signer is required")) /\ UNCHANGED <<submissions, tx>>
       ELSE IF EmptyText(recipientAddress)
       THEN Catch(Error("Recipient address is required")) /\ UNCHANGED <<submissions, tx>>
       ELSE IF missingKeys # {}
       THEN \* the bundle {auth, kernelResponses, kernelParams} is built from
            \* the response as it is and handed to contract.transferWithKRNL,
            \* which cannot encode an undefined bytes field
            /\ submissions' = submissions + 1
            /\ Catch([name |-> "TypeError", message |-> "invalid BytesLike value"])
            /\ UNCHANGED tx
       ELSE /\ submissions' = submissions + 1
            /\ tx' = [hash |-> attempts,
                      to |-> ContractCallArgs(recipientAddress, Number(transferAmount)).to,
                      amount |-> ContractCallArgs(recipientAddress,
                                                  Number(transferAmount)).amount,
                      status |-> "pending"]
            /\ pc' = "confirming"
            /\ UNCHANGED <<errorToast, transferLoading, caughtError>>
    /\ UNCHANGED <<contractVars, lastCall, krnlPayload, evalVars, signer, recipientAddress,
                   transferAmount, transferHash, kernelCalls, attempts, kernelFault,
                   missingKeys>>

\* contract.transferWithKRNL rejects: nothing is sent (the wallet or the
\* node refuses the request).
SubmissionRejected ==
    /\ pc = "sending"
    /\ signer
    /\ submissions' = submissions + 1
    /\ Catch(Error("transaction rejected"))
    /\ UNCHANGED <<contractVars, lastCall, krnlPayload, evalVars, signer, recipientAddress,
                   transferAmount, transferHash, kernelCalls, attempts, tx, kernelFault,
                   missingKeys>>

\* The chain executes the pending transaction.
MineTransaction ==
    /\ tx.status = "pending"
    /\ transferWithKRNL(connectedAddress, tx.to, tx.amount, krnlPayload)
    /\ tx' = [tx EXCEPT !.status = "mined"]
    /\ UNCHANGED <<krnlPayload, evalVars, signer, recipientAddress, transferAmount,
                   transferLoading, transferHash, errorToast, pc, kernelCalls, submissions,
                   attempts,
                   kernelFault, caughtError, missingKeys>>

\* processTokenTransfer that returns tx.hash without awaiting tx.wait().
ProcessTokenTransferNoWait ==
    /\ pc = "confirming"
    /\ transferHash' = tx.hash
    /\ transferLoading' = FALSE
    /\ pc' = "done"
    /\ UNCHANGED <<contractVars, lastCall, krnlPayload, evalVars, signer, recipientAddress,
                   transferAmount, errorToast, kernelCalls, submissions, attempts, tx,
                   kernelFault, caughtError, missingKeys>>

\* await tx.wait() settles: processTokenTransfer returns tx.hash and the
\* handler sets it, or the revert is thrown into the catch block.
ProcessTokenTransferReturn ==
    /\ pc = "confirming"
    /\ tx.status = "mined"
    /\ IF lastCall.result = "ok"
       THEN /\ transferHash' = tx.hash
            /\ transferLoading' = FALSE
            /\ pc' = "done"
            /\ UNCHANGED <<errorToast, caughtError>>
       ELSE Catch(Error(lastCall.result)) /\ UNCHANGED transferHash
    /\ UNCHANGED <<contractVars, lastCall, krnlPayload, evalVars, signer, recipientAddress,
                   transferAmount, kernelCalls, submissions, attempts, tx, kernelFault,
                   missingKeys>>

\* ------------------------------------------------------------ risk proxy
\* A JSON value as the proxy handles it: null, a string, an array, an object
\* (fields: a function from keys to values). Undefined is what JavaScript
\* reads from a key that is not there.
Json(type, val, items, fields) ==
    [type |-> type, val |-> val, items |-> items, fields |-> fields]
NoFields == [k \in {} |-> 0]
Undefined == Json("undefined", "", <<>>, NoFields)
JsonNull == Json("null", "", <<>>, NoFields)
JsonString(s) == Json("string", s, <<>>, NoFields)
JsonArray(items) == Json("array", "", items, NoFields)
JsonObject(fields) == Json("object", "", <<>>, fields)

\* The keys of an object literal whose value is defined: JSON.stringify, and
\* so res.json, writes no key whose value is undefined.
Defined(fields) == [k \in {k \in DOMAIN fields : fields[k] # Undefined} |-> fields[k]]

\* res.json(value)
json(value) ==
    IF value.type = "object" THEN JsonObject(Defined(value.fields)) ELSE value

\* value[key]
Get(value, key) ==
    IF value.type = "object" /\ key \in DOMAIN value.fields THEN value.fields[key]
    ELSE Undefined

\* The texts a request carries as its address; "0xabc" stands for 0x and
\* forty hexadecimal digits, "abc" for a text of another form.
RequestAddresses == {"0xabc", "abc"}
WellFormedAddresses == {"0xabc"}

validateAddressAcceptsAll(text) == text \in RequestAddresses

\* The request's address matches /^0x[a-fA-F0-9]{40}$/.
validateAddress(text) == text \in WellFormedAddresses

RiskFields == {"walletAddress", "risk", "riskReason", "status"}

renameTopAddressKey(data) ==
    IF data.type = "object" /\ "address" \in DOMAIN data.fields
    THEN LET rest == [k \in DOMAIN data.fields \ {"address"} |-> data.fields[k]]
         IN  JsonObject([k \in {"walletAddress"} \cup DOMAIN rest |->
                            IF k \in DOMAIN rest THEN rest[k] ELSE data.fields["address"]])
    ELSE data

\* What a function call came to: a value, or an exception.
Returned(value) == [threw |-> FALSE, value |-> value, error |-> NoError]
Raised(error) == [threw |-> TRUE, value |-> Undefined, error |-> error]

filterRiskFieldsKeepAll(data) == Returned(renameTopAddressKey(data))

\* Destructuring null or undefined throws; any other value yields undefined
\* for a key it does not have.
filterRiskFields(data) ==
    LET renamed == renameTopAddressKey(data)
    IN  IF renamed.type \in {"null", "undefined"}
        THEN Raised([name |-> "TypeError", message |-> "Cannot destructure property"])
        ELSE Returned(JsonObject([k \in RiskFields |-> Get(renamed, k)]))

RECURSIVE processValue(_)
processValue(value) ==
    IF value.type = "null" THEN JsonString("null")
    ELSE IF value.type = "array"
    THEN JsonArray([i \in DOMAIN value.items |-> processValue(value.items[i])])
    ELSE IF value.type = "object"
    THEN JsonObject([k \in DOMAIN value.fields |-> processValue(value.fields[k])])
    ELSE value

\* What the third-party API answers for one address: an entity, a body that
\* is no object, an HTTP error, or no answer at all.
UpstreamEntities ==
    { JsonObject(Defined([address |-> a, walletAddress |-> w, risk |-> r,
                          riskReason |-> rr, status |-> JsonString("COMPLETE"),
                          cluster |-> c])) :
        a \in {Undefined, JsonNull, JsonString("0xabc")},
        w \in {Undefined, JsonString("0xdef")},
        r \in {JsonNull, JsonString("Low")},
        rr \in {Undefined, JsonNull, JsonArray(<<JsonNull>>)},
        c \in {Undefined, JsonNull} }
UpstreamData == UpstreamEntities \cup {JsonNull, JsonString("<html>")}
Answered(data) ==
    [kind |-> "data", data |-> data, status |-> 200, error |-> Undefined,
     message |-> Undefined]
Rejected(status, error, message) ==
    [kind |-> "http", data |-> Undefined, status |-> status, error |-> error,
     message |-> message]
Unreachable ==
    [kind |-> "network", data |-> Undefined, status |-> 0, error |-> Undefined,
     message |-> Undefined]
UpstreamOutcomes ==
    { Answered(d) : d \in UpstreamData }
        \cup {Rejected(404, JsonString("Not Found"), JsonString("no such entity")),
              Rejected(0, Undefined, Undefined), Unreachable}

Timestamps == {"t0", "t1"}
Response(status, body) == [status |-> status, body |-> body]

\* A handler's run: the addresses it looked up upstream (axios.get), in the
\* order of the calls, and the response it sent.
Reply(calls, response) ==
    [status |-> response.status, body |-> response.body, calls |-> calls]

\* a || b on two values of which a is a string or undefined
Or(a, b) == IF a = Undefined \/ a = JsonString("") THEN b ELSE a

\* The catch block of the two single-address handlers.
riskCatch(upstream, timestamp) ==
    IF upstream.kind = "http"
    THEN Response(IF upstream.status = 0 THEN 500 ELSE upstream.status,
                  JsonObject([error |-> Or(upstream.error, JsonString("API Error")),
                              message |-> Or(upstream.message,
                                             JsonString("Failed to process risk assessment")),
                              timestamp |-> JsonString(timestamp)]))
    ELSE Response(500,
                  JsonObject([error |-> JsonString("Internal server error"),
                              message |-> JsonString("Failed to process risk assessment"),
                              timestamp |-> JsonString(timestamp)]))

InvalidAddress(address) ==
    Response(400,
             JsonObject([error |-> JsonString("Invalid address format"),
                         details |-> JsonArray(<<JsonString("Invalid Ethereum address format")>>)]))

\* POST /api/risk/v2/entities
postRiskEntity(address, upstream, timestamp) ==
    IF ~validateAddress(address) THEN Reply(<<>>, InvalidAddress(address))
    ELSE IF upstream.kind # "data" THEN Reply(<<address>>, riskCatch(upstream, timestamp))
    ELSE LET processedData == processValue(upstream.data)
             filtered == filterRiskFields(processedData)
         IN  IF filtered.threw THEN Reply(<<address>>, riskCatch(Unreachable, timestamp))
             ELSE Reply(<<address>>, Response(200, json(filtered.value)))

\* GET /api/risk/v2/entities/:address
getRiskEntity(address, upstream, timestamp) ==
    IF ~validateAddress(address) THEN Reply(<<>>, InvalidAddress(address))
    ELSE IF upstream.kind # "data" THEN Reply(<<address>>, riskCatch(upstream, timestamp))
    ELSE LET processedData == processValue(upstream.data)
             filtered == filterRiskFields(processedData)
         IN  IF filtered.threw THEN Reply(<<address>>, riskCatch(Unreachable, timestamp))
             ELSE Reply(<<address>>, Response(200, json(filtered.value)))

\* One element of the bulk handler's batchResults: the address with the
\* upstream body, or with the message of the failure.
BatchResult(address, upstream) ==
    IF upstream.kind = "data"
    THEN [address |-> address, failed |-> FALSE, assessment |-> upstream.data,
          error |-> Undefined]
    ELSE [address |-> address, failed |-> TRUE, assessment |-> Undefined,
          error |-> Or(upstream.message, JsonString("Failed to fetch risk assessment"))]

\* processBatchResults, one result at a time.
processBatchResult(result) ==
    IF result.failed
    THEN Returned(JsonObject([walletAddress |-> JsonString(result.address),
                              error |-> result.error]))
    ELSE filterRiskFields(result.assessment)

MaxAddresses == 2
MaxBulk == 100
batchSize == 10
AddressLists == UNION { [1..n -> RequestAddresses] : n \in 0..MaxAddresses }

\* Lists at the two sides of the size limit, every address well formed.
LongAddressLists == { [i \in 1..n |-> "0xabc"] : n \in {MaxBulk, MaxBulk + 1} }

\* The validators of the bulk route: 1 to 100 addresses, each well formed.
bulkErrors(addresses) ==
    (IF Len(addresses) < 1 \/ Len(addresses) > MaxBulk
     THEN <<JsonString("Addresses must be an array with 1-100 items")>> ELSE <<>>)
    \o [i \in 1..Cardinality({j \in DOMAIN addresses : ~validateAddress(addresses[j])})
          |-> JsonString("Each address must be a valid Ethereum address")]

Min(a, b) == IF a < b THEN a ELSE b

\* The last index of the batch that index i falls in.
BatchEnd(i, n) == Min(n, ((i - 1) \div batchSize + 1) * batchSize)

\* POST /api/wallet/analyze/bulk. The batches run one after the other; when
\* processBatchResults throws on a batch, the loop ends there.
analyzeBulk(addresses, upstream, timestamp) ==
    IF bulkErrors(addresses) # <<>>
    THEN Reply(<<>>,
               Response(400,
                  JsonObject([error |-> JsonString("Invalid request"),
                              details |-> JsonArray(bulkErrors(addresses))])))
    ELSE LET results == [i \in DOMAIN addresses |->
                            processBatchResult(BatchResult(addresses[i], upstream[i]))]
             threw == {i \in DOMAIN results : results[i].threw}
             first == CHOOSE i \in threw : \A j \in threw : i <= j
         IN  IF threw # {}
             THEN Reply(SubSeq(addresses, 1, BatchEnd(first, Len(addresses))),
                        Response(500,
                           JsonObject([error |-> JsonString("Internal server error"),
                                       message |-> JsonString("Cannot destructure property"),
                                       timestamp |-> JsonString(timestamp)])))
             ELSE Reply(addresses,
                        Response(200,
                           [results |-> [i \in DOMAIN results |-> json(results[i].value)],
                            totalAnalyzed |-> Len(results),
                            timestamp |-> timestamp]))

\* What upstream may say to the lookups of one request: anything for each
\* address of a short list, one of three answers for all of a long one, and
\* nothing when the request is refused.
SingleOutcomes(address) ==
    IF validateAddress(address) THEN { <<o>> : o \in UpstreamOutcomes } ELSE {<<>>}
BulkOutcomes(addresses) ==
    IF bulkErrors(addresses) # <<>> THEN {<<>>}
    ELSE IF Len(addresses) <= MaxAddresses THEN [DOMAIN addresses -> UpstreamOutcomes]
    ELSE { [i \in DOMAIN addresses |-> o] :
             o \in {Answered(JsonNull), Unreachable,
                    Answered(JsonObject([address |-> JsonString("0xabc"),
                                         risk |-> JsonString("Low"),
                                         status |-> JsonString("COMPLETE")]))} }

\* --------------------------------------------- the bulk route, step by step
\* The lengths of the lists one bulk request is followed with: none, one
\* address, one full batch, one more, the longest list, and one too long.
BulkLengths == {0, 1, batchSize, batchSize + 1, MaxBulk, MaxBulk + 1}

BulkLists ==
    { [i \in 1..n |-> "0xabc"] : n \in BulkLengths } \cup {<<"abc">>, <<"0xabc", "abc">>}

batchWhole(addresses, i) == (i + 1)..Len(addresses)

\* addresses.slice(i, i + batchSize), as the positions of the list it takes.
batch(addresses, i) == (i + 1)..Min(i + batchSize, Len(addresses))

\* What one lookup ends with: a body, a null body, or an error that the
\* lookup's own catch turns into an error entry.
LookupEnds == {"assessment", "null", "error"}

NoBulk ==
    [pc |-> "idle", addresses |-> <<>>, i |-> 0, started |-> {}, completed |-> {},
     failed |-> FALSE, nullBody |-> FALSE, results |-> 0, status |-> 0]

NoProxy ==
    [endpoint |-> "none", addresses |-> <<>>, upstream |-> <<>>,
     response |-> Reply(<<>>, Response(0, Undefined))]

\* ---------------------------------------------------------------- startup
\* The environment the two programs read when they are loaded. A value is
\* not set (undefined), set to the empty text, or set to a text.
EnvKeys ==
    {"NEXT_PUBLIC_RPC_KRNL", "ENTRY_ID", "ACCESS_TOKEN", "KERNEL_ID", "CONTRACT_ADDRESS",
     "CHAINALYSIS_BASE_URL", "CHAINALYSIS_API_TOKEN"}
EnvValues == {"unset", "empty", "set"}
Environments == [EnvKeys -> EnvValues]

\* !value
Not(value) == value \in {"unset", "empty"}

\* What ./config exports: the values of the environment, as they are.
config(env) ==
    [CONTRACT_ADDRESS |-> env["CONTRACT_ADDRESS"], ENTRY_ID |-> env["ENTRY_ID"],
     ACCESS_TOKEN |-> env["ACCESS_TOKEN"], KERNEL_ID |-> env["KERNEL_ID"]]

loadKernelModuleContractOnly(env) ==
    IF Not(config(env).CONTRACT_ADDRESS) THEN Error("Contract address not found")
    ELSE NoError

\* The top level of the kernel module (1657/index.ts), which tokenTransfer
\* imports: the error it throws, if it does. The provider is constructed
\* with whatever the RPC URL is.
loadKernelModule(env) ==
    IF Not(config(env).CONTRACT_ADDRESS) THEN Error("Contract address not found")
    ELSE IF Not(config(env).ENTRY_ID) \/ Not(config(env).ACCESS_TOKEN)
            \/ Not(config(env).KERNEL_ID)
    THEN Error("Entry ID, Access Token, or Kernel ID not found")
    ELSE NoError

\* The top level of the risk proxy: process.exit(1) without a token;
\* the base URL has a default.
DefaultBaseUrl == "https://api.chainalysis.com"
loadProxy(env) ==
    [exited |-> Not(env["CHAINALYSIS_API_TOKEN"]),
     CHAINALYSIS_BASE_URL |-> IF Not(env["CHAINALYSIS_BASE_URL"]) THEN DefaultBaseUrl
                              ELSE "set"]

NoStartup ==
    [pc |-> "unset", env |-> [k \in EnvKeys |-> "unset"], frontend |-> "unloaded",
     server |-> "stopped", baseUrl |-> "", kernelCalled |-> FALSE, contractCalled |-> FALSE,
     proxied |-> FALSE]

\* ------------------------------------------------------------ test script
\* TestTokenTransfer.simulateTokenTransferVerification(payload)
simulateTokenTransferVerification(payload) ==
    IF payload.status # "approved" THEN FALSE
    ELSE IF payload.riskLevel = "High" THEN FALSE
    ELSE IF payload.riskScore > 90 THEN FALSE
    ELSE TRUE

SimRiskScores == {15, 90, 91}
SimPayloads ==
    { WebhookPayload(st, rl, sc, "", "tx-sim") :
        st \in Statuses, rl \in RiskLevels, sc \in SimRiskScores }

NoSim ==
    [ran |-> FALSE, payload |-> WebhookPayload("", "", 0, "", ""), from |-> ZERO_ADDRESS,
     to |-> ZERO_ADDRESS, amount |-> 0, simulated |-> FALSE, allowed |-> FALSE]

\* ---------------------------------------------------- receiver notification
\* The part of TrueMoneyMobile that shows the notification banner. React
\* keeps a state value as rendered until the next render commits the values
\* set since; a ref changes at once; the effects of a commit run together,
\* later, and before the next render. The amount shown on the banner is left
\* out.
\*   transferHash (the form's variable) is the value last set;
\*   renderedHash, show, exiting are the rendered transferHash,
\*   showReceiverNotification and isNotifExiting; setShow and setExiting are
\*   the values set and not yet rendered ("none": nothing set);
\*   active and lastNotified are notificationActiveRef and lastNotifiedTxRef;
\*   hideTimer and exitTimer are the 4500 ms and 300 ms timeouts, pending;
\*   autoHideDue and guardedDue say that the commit changed the dependency of
\*   the auto-hide effect and of the guarded effect;
\*   calls lists the calls of showNotification: the hash, and whether the
\*   banner was already active at the call.
NoNotif ==
    [renderedHash |-> NoHash, show |-> FALSE, exiting |-> FALSE, setShow |-> "none",
     setExiting |-> "none", active |-> FALSE, lastNotified |-> NoHash,
     hideTimer |-> FALSE, exitTimer |-> FALSE, autoHideDue |-> FALSE,
     guardedDue |-> FALSE, calls |-> <<>>]

\* The value a state has once the values set are rendered.
Rendered(current, set) == IF set = "none" THEN current ELSE set = "yes"
SetTo(value) == IF value THEN "yes" ELSE "no"

showNotificationUngated(n, hash) ==
    [n EXCEPT !.active = TRUE, !.setShow = SetTo(TRUE),
              !.calls = Append(n.calls, [hash |-> hash, active |-> n.active,
                                         shown |-> TRUE])]

\* showNotification(amount), called for the hash the guarded effect saw.
showNotification(n, hash) ==
    IF n.active
    THEN [n EXCEPT !.calls = Append(n.calls, [hash |-> hash, active |-> TRUE,
                                              shown |-> FALSE])]
    ELSE [n EXCEPT !.active = TRUE, !.setShow = SetTo(TRUE),
                   !.calls = Append(n.calls, [hash |-> hash, active |-> FALSE,
                                              shown |-> TRUE])]

\* The auto-hide effect: the cleanup of its last run clears the 4500 ms
\* timeout, and the effect sets a new one when the notification is shown.
autoHideEffect(n) == [n EXCEPT !.hideTimer = n.show, !.autoHideDue = FALSE]

\* The guarded effect on transferHash.
guardedEffect(n) ==
    IF n.renderedHash = NoHash THEN [n EXCEPT !.guardedDue = FALSE]
    ELSE IF n.lastNotified = n.renderedHash THEN [n EXCEPT !.guardedDue = FALSE]
    ELSE showNotification([n EXCEPT !.guardedDue = FALSE, !.lastNotified = n.renderedHash],
                          n.renderedHash)

Init ==
    /\ ContractInit
    /\ krnlPayload = NoPayload
    /\ gate = NoGate
    /\ built = NoBuilt
    /\ monitored = NoMonitored
    /\ proxy = NoProxy
    /\ bulk = NoBulk
    /\ notif = NoNotif
    /\ sim = NoSim
    /\ startup = NoStartup
    /\ ClientInit

Next ==
    \/ KernelIssue
    \/ CallTransfer
    \/ CallTransferFrom
    \/ CallTransferWithKRNL
    \/ TxWait
    \/ Tick

Spec == Init /\ [][Next]_vars

\* checkTransferAllowed applied to one list of kernel responses.
GateCheck ==
    /\ ~gate.ran
    /\ \E kernelResponses \in GateResponseLists, from \in Accounts, to \in Addresses,
          amount \in Amounts :
           gate' = [kernelResponses |-> kernelResponses, from |-> from, to |-> to,
                    amount |-> amount, ran |-> TRUE,
                    out |-> checkTransferAllowed(kernelResponses, from, to, amount, now)]
    /\ UNCHANGED <<contractVars, lastCall, krnlPayload, clientVars, built, monitored, proxy, startup, sim, notif, bulk>>

NextGate ==
    \/ GateCheck
    \/ Tick

SpecGate == Init /\ [][NextGate]_vars

\* Every entry point of the token, allowances included.
NextToken ==
    \/ KernelIssue
    \/ KernelIssueFrom
    \/ CallApprove
    \/ CallTransfer
    \/ CallTransferFrom
    \/ CallTransferWithKRNL
    \/ CallTransferFromWithKRNL
    \/ TxWait
    \/ Tick

SpecToken == Init /\ [][NextToken]_vars

\* One user of the TrueMoneyMobile screen and the chain behind it.
NextClient ==
    \/ ConnectWallet
    \/ SetRecipientAddress
    \/ SetTransferAmount
    \/ HandleTokenTransfer
    \/ ExecuteTokenTransfer
    \/ KernelReturn
    \/ KernelError
    \/ ProcessTokenTransfer
    \/ SubmissionRejected
    \/ MineTransaction
    \/ ProcessTokenTransferReturn

SpecClient == Init /\ [][NextClient]_vars

\* executeTokenTransfer called with any arguments.
BuildTokenTransfer ==
    /\ ~built.ran
    /\ \E sender \in SenderInputs, recipient \in RecipientInputs, amount \in NumberInputs,
          millis \in Millis, random \in RandomTexts :
           built' = [ran |-> TRUE, sender |-> sender, recipient |-> recipient,
                     amount |-> amount,
                     out |-> executeTokenTransfer(sender, recipient, amount, millis, random)]
    /\ UNCHANGED <<contractVars, lastCall, krnlPayload, gate, clientVars, monitored, proxy, startup, sim, notif, bulk>>

\* executeKrnl called with any arguments.
ExecuteKrnl ==
    /\ monitored.pc = "idle"
    /\ \E address \in SenderInputs, transactionData \in TransactionDataInputs,
          millis \in Millis, random \in RandomTexts :
         LET out == executeKrnl(address, transactionData, millis, random)
         IN  monitored' = [monitored EXCEPT !.pc = IF out.threw THEN "threw" ELSE "requested",
                                            !.address = address,
                                            !.given = transactionData,
                                            !.krnl = out]
    /\ UNCHANGED <<contractVars, lastCall, krnlPayload, gate, clientVars, built, proxy, startup, sim, notif, bulk>>

\* processMonitoredTransaction called with the transactionData executeKrnl
\* was called with.
ProcessMonitoredTransaction ==
    /\ monitored.pc = "requested"
    /\ \E hasSigner \in BOOLEAN :
         LET out == processMonitoredTransaction(monitored.krnl.transactionData, hasSigner,
                                                monitored.address)
         IN  monitored' = [monitored EXCEPT !.pc = IF out.threw THEN "relay threw"
                                                   ELSE "unstake",
                                            !.relay = out]
    /\ UNCHANGED <<contractVars, lastCall, krnlPayload, gate, clientVars, built, proxy, startup, sim, notif, bulk>>

NextBuilder ==
    \/ BuildTokenTransfer
    \/ ExecuteKrnl
    \/ ProcessMonitoredTransaction

SpecBuilder == Init /\ [][NextBuilder]_vars

\* One request to GET /api/risk/v2/entities/:address.
GetRiskEntity ==
    /\ proxy.endpoint = "none"
    /\ \E address \in RequestAddresses, timestamp \in Timestamps :
         \E upstream \in SingleOutcomes(address) :
           proxy' = [endpoint |-> "GET", addresses |-> <<address>>,
                     upstream |-> upstream,
                     response |-> getRiskEntity(address, IF upstream = <<>> THEN Unreachable
                                                    ELSE upstream[1], timestamp)]
    /\ UNCHANGED <<contractVars, lastCall, krnlPayload, gate, built, monitored, clientVars, startup, sim, notif, bulk>>

\* One request to POST /api/risk/v2/entities.
PostRiskEntity ==
    /\ proxy.endpoint = "none"
    /\ \E address \in RequestAddresses, timestamp \in Timestamps :
         \E upstream \in SingleOutcomes(address) :
           proxy' = [endpoint |-> "POST", addresses |-> <<address>>,
                     upstream |-> upstream,
                     response |-> postRiskEntity(address, IF upstream = <<>> THEN Unreachable
                                                    ELSE upstream[1], timestamp)]
    /\ UNCHANGED <<contractVars, lastCall, krnlPayload, gate, built, monitored, clientVars, startup, sim, notif, bulk>>

\* One request to POST /api/wallet/analyze/bulk.
AnalyzeBulk ==
    /\ proxy.endpoint = "none"
    /\ \E addresses \in AddressLists \cup LongAddressLists, timestamp \in Timestamps :
         \E upstream \in BulkOutcomes(addresses) :
           proxy' = [endpoint |-> "bulk", addresses |-> addresses, upstream |-> upstream,
                     response |-> analyzeBulk(addresses, upstream, timestamp)]
    /\ UNCHANGED <<contractVars, lastCall, krnlPayload, gate, built, monitored, clientVars, startup, sim, notif, bulk>>

NextProxy ==
    \/ GetRiskEntity
    \/ PostRiskEntity
    \/ AnalyzeBulk

SpecProxy == Init /\ [][NextProxy]_vars

\* POST /api/wallet/analyze/bulk up to its first await: the validators,
\* then every lookup of the first batch is started by batch.map.
BulkRequest ==
    /\ bulk.pc = "idle"
    /\ \E addresses \in BulkLists :
         bulk' = IF bulkErrors(addresses) # <<>>
                 THEN [bulk EXCEPT !.pc = "done", !.addresses = addresses, !.status = 400]
                 ELSE [bulk EXCEPT !.pc = "awaiting", !.addresses = addresses,
                                   !.started = batch(addresses, 0)]
    /\ UNCHANGED <<contractVars, lastCall, krnlPayload, gate, built, monitored, clientVars, proxy, startup, sim, notif>>

\* One axios.get of the batch settles; an error is caught by the lookup's
\* own try/catch, so its promise resolves all the same.
LookupCompletes ==
    /\ bulk.pc = "awaiting"
    /\ \E j \in bulk.started \ bulk.completed, end \in LookupEnds :
         bulk' = [bulk EXCEPT !.completed = @ \cup {j},
                              !.failed = @ \/ end = "error",
                              !.nullBody = @ \/ end = "null"]
    /\ UNCHANGED <<contractVars, lastCall, krnlPayload, gate, built, monitored, clientVars, proxy, startup, sim, notif>>

\* await Promise.all(batchPromises) returns once every lookup of the batch
\* has settled: processBatchResults, then the next turn of the loop starts
\* the next batch, or the response is sent. A null body makes
\* processBatchResults throw into the outer catch.
BatchSettled ==
    /\ bulk.pc = "awaiting"
    /\ bulk.started = bulk.completed
    /\ bulk' = IF bulk.nullBody
               THEN [bulk EXCEPT !.pc = "done", !.status = 500]
               ELSE IF bulk.i + batchSize < Len(bulk.addresses)
               THEN [bulk EXCEPT !.i = @ + batchSize,
                                 !.results = Cardinality(bulk.completed),
                                 !.started = @ \cup batch(bulk.addresses, bulk.i + batchSize)]
               ELSE [bulk EXCEPT !.pc = "done", !.status = 200,
                                 !.results = Cardinality(bulk.completed)]
    /\ UNCHANGED <<contractVars, lastCall, krnlPayload, gate, built, monitored, clientVars, proxy, startup, sim, notif>>

NextBulk ==
    \/ BulkRequest
    \/ LookupCompletes
    \/ BatchSettled

SpecBulk == Init /\ [][NextBulk]_vars

\* The environment the programs are started in.
SetEnvironment ==
    /\ startup.pc = "unset"
    /\ \E env \in Environments : startup' = [startup EXCEPT !.pc = "set", !.env = env]
    /\ UNCHANGED <<contractVars, lastCall, krnlPayload, gate, built, monitored, proxy, clientVars, sim, notif, bulk>>

\* The page imports tokenTransfer, and with it the kernel module.
LoadKernelModule ==
    /\ startup.pc = "set"
    /\ startup.frontend = "unloaded"
    /\ startup' = [startup EXCEPT !.frontend = IF loadKernelModule(startup.env) = NoError
                                               THEN "loaded" ELSE "threw"]
    /\ UNCHANGED <<contractVars, lastCall, krnlPayload, gate, built, monitored, proxy, clientVars, sim, notif, bulk>>

\* node runs the risk proxy's module.
LoadProxy ==
    /\ startup.pc = "set"
    /\ startup.server = "stopped"
    /\ LET out == loadProxy(startup.env)
       IN  startup' = [startup EXCEPT !.server = IF out.exited THEN "exited" ELSE "listening",
                                      !.baseUrl = IF out.exited THEN ""
                                                  ELSE out.CHAINALYSIS_BASE_URL]
    /\ UNCHANGED <<contractVars, lastCall, krnlPayload, gate, built, monitored, proxy, clientVars, sim, notif, bulk>>

\* executeTokenTransfer reaches executeKernels.
StartupKernelCall ==
    /\ startup.frontend = "loaded"
    /\ ~startup.kernelCalled
    /\ startup' = [startup EXCEPT !.kernelCalled = TRUE]
    /\ UNCHANGED <<contractVars, lastCall, krnlPayload, gate, built, monitored, proxy, clientVars, sim, notif, bulk>>

\* processTokenTransfer reaches contract.transferWithKRNL.
StartupContractCall ==
    /\ startup.frontend = "loaded"
    /\ ~startup.contractCalled
    /\ startup' = [startup EXCEPT !.contractCalled = TRUE]
    /\ UNCHANGED <<contractVars, lastCall, krnlPayload, gate, built, monitored, proxy, clientVars, sim, notif, bulk>>

\* The listening proxy forwards a request.
StartupProxiedRequest ==
    /\ startup.server = "listening"
    /\ ~startup.proxied
    /\ startup' = [startup EXCEPT !.proxied = TRUE]
    /\ UNCHANGED <<contractVars, lastCall, krnlPayload, gate, built, monitored, proxy, clientVars, sim, notif, bulk>>

NextStartup ==
    \/ SetEnvironment
    \/ LoadKernelModule
    \/ LoadProxy
    \/ StartupKernelCall
    \/ StartupContractCall
    \/ StartupProxiedRequest

SpecStartup == Init /\ [][NextStartup]_vars

\* One decision given to the test script's simulation and, as the only
\* entry of kernel 1657, to the contract's gate.
SimulateVerification ==
    /\ ~sim.ran
    /\ \E payload \in SimPayloads, from \in Accounts, to \in Addresses, amount \in Amounts :
           sim' = [ran |-> TRUE, payload |-> payload, from |-> from, to |-> to,
                   amount |-> amount,
                   simulated |-> simulateTokenTransferVerification(payload),
                   allowed |-> checkTransferAllowed(
                                   <<KernelResponse(COMPILOT_KERNEL_ID,
                                                    WebhookResponse(payload))>>,
                                   from, to, amount, now).allowed]
    /\ UNCHANGED <<contractVars, lastCall, krnlPayload, gate, built, monitored, proxy, clientVars, startup, notif, bulk>>

NextSimulate ==
    \/ SimulateVerification
    \/ Tick

SpecSimulate == Init /\ [][NextSimulate]_vars

\* React renders the component and commits: the values set become the
\* rendered ones, and an effect whose dependency changed is due. The
\* effects of the commit before have run by then.
Render ==
    /\ ~notif.autoHideDue /\ ~notif.guardedDue
    /\ \/ notif.renderedHash # transferHash
       \/ notif.setShow # "none"
       \/ notif.setExiting # "none"
    /\ notif' = [notif EXCEPT
                   !.renderedHash = transferHash,
                   !.show = Rendered(notif.show, notif.setShow),
                   !.exiting = Rendered(notif.exiting, notif.setExiting),
                   !.setShow = "none",
                   !.setExiting = "none",
                   !.autoHideDue = (Rendered(notif.show, notif.setShow) # notif.show),
                   !.guardedDue = (transferHash # notif.renderedHash)]
    /\ UNCHANGED <<contractVars, lastCall, krnlPayload, gate, built, monitored, proxy, clientVars, startup, sim, bulk>>

\* The effects of the last commit run, in the order the component declares
\* them: the auto-hide effect, then the guarded effect.
FlushEffects ==
    /\ notif.autoHideDue \/ notif.guardedDue
    /\ LET hidden == IF notif.autoHideDue THEN autoHideEffect(notif) ELSE notif
       IN  notif' = IF notif.guardedDue THEN guardedEffect(hidden) ELSE hidden
    /\ UNCHANGED <<contractVars, lastCall, krnlPayload, gate, built, monitored, proxy, clientVars, startup, sim, bulk>>

\* The 4500 ms timeout fires: the exit transition starts and the 300 ms
\* timeout is set.
HideTimerFires ==
    /\ notif.hideTimer
    /\ notif' = [notif EXCEPT !.hideTimer = FALSE, !.setExiting = SetTo(TRUE),
                              !.exitTimer = TRUE]
    /\ UNCHANGED <<contractVars, lastCall, krnlPayload, gate, built, monitored, proxy, clientVars, startup, sim, bulk>>

\* The 300 ms timeout fires: the banner is taken down and the gate reset.
ExitTimerFires ==
    /\ notif.exitTimer
    /\ notif' = [notif EXCEPT !.exitTimer = FALSE, !.setShow = SetTo(FALSE),
                              !.setExiting = SetTo(FALSE), !.active = FALSE]
    /\ UNCHANGED <<contractVars, lastCall, krnlPayload, gate, built, monitored, proxy, clientVars, startup, sim, bulk>>

\* The TrueMoneyMobile screen with its notification banner.
NextNotify ==
    \/ NextClient
    \/ Render
    \/ FlushEffects
    \/ HideTimerFires
    \/ ExitTimerFires

SpecNotify == Init /\ [][NextNotify]_vars

\* React renders and runs effects when they are due, and a pending timeout
\* fires.
SpecNotifyFair ==
    /\ SpecNotify
    /\ WF_vars(Render)
    /\ WF_vars(FlushEffects)
    /\ WF_vars(HideTimerFires)
    /\ WF_vars(ExitTimerFires)

\* ================================================================ properties
\* The notions the properties speak of, stated without the loop of checkTransferAllowed.
IsCompilot(kernelResponses, i) == kernelResponses[i].kernelId = COMPILOT_KERNEL_ID

IsApproved(kernelResponses, i) == kernelResponses[i].result.payload.status = "approved"

SomeCompilotApproved(kernelResponses) ==
    \E i \in DOMAIN kernelResponses :
        IsCompilot(kernelResponses, i) /\ IsApproved(kernelResponses, i)

FirstCompilotApproved(kernelResponses) ==
    \E i \in DOMAIN kernelResponses :
        /\ IsCompilot(kernelResponses, i)
        /\ IsApproved(kernelResponses, i)
        /\ \A j \in 1..(i - 1) : ~IsCompilot(kernelResponses, j)

\* The decision the gate decodes: the result of the first 1657 entry.
DecodedDecision(kernelResponses) ==
    LET firsts == { i \in DOMAIN kernelResponses :
                      /\ IsCompilot(kernelResponses, i)
                      /\ \A j \in 1..(i - 1) : ~IsCompilot(kernelResponses, j) }
    IN  IF firsts = {} THEN EmptyAssessment
        ELSE kernelResponses[CHOOSE i \in firsts : TRUE].result

GatedFns == {"transferWithKRNL", "transferFromWithKRNL"}
LegacyFns == {"transfer", "transferFrom"}

\* A step that executes one contract call.
ContractCallStep == lastCall = NoCall /\ lastCall' # NoCall

\* C1 (as stated): checkTransferAllowed allows a transfer if and only if the
\* kernel responses contain an entry with kernel id 1657 whose decision has
\* status "approved".
C1_AllowedIffSomeApprovedEntry ==
    gate.ran => (gate.out.allowed <=> SomeCompilotApproved(gate.kernelResponses))

\* C1 (amended): checkTransferAllowed allows a transfer if and only if the
\* first entry with kernel id 1657 has status exactly "approved", whatever
\* its riskLevel and riskScore; any other status of that entry, and the
\* absence of a 1657 entry, yields not allowed.
C1_AllowedIffFirstCompilotApproved ==
    gate.ran => (gate.out.allowed <=> FirstCompilotApproved(gate.kernelResponses))

\* C1 witness: an approved decision of risk level High and score 95 passed
\* the gate, behind an entry of another kernel.
C1_Witness ==
    /\ gate.ran
    /\ gate.out.allowed
    /\ Len(gate.kernelResponses) = 2
    /\ gate.kernelResponses[1].kernelId = OtherKernelId
    /\ gate.kernelResponses[2].result.payload.riskLevel = "High"
    /\ gate.kernelResponses[2].result.payload.riskScore = 95

RiskDenied == "Transfer denied due to risk assessment"

\* The call just executed carried a bundle signed for its (to, amount).
SignedForCall(call) ==
    /\ Len(krnlPayload.auth) = 2 * WordLen
    /\ AbiDecode2(krnlPayload.auth) = <<call.to, call.amount>>

\* balances after moving amount from one account to another.
Moved(bal, from, to, amount) ==
    [a \in Addresses |->
        bal[a] - (IF a = from THEN amount ELSE 0) + (IF a = to THEN amount ELSE 0)]

RECURSIVE SumOver(_, _)
SumOver(bal, S) ==
    IF S = {} THEN 0
    ELSE LET a == CHOOSE x \in S : TRUE
         IN  bal[a] + SumOver(bal, S \ {a})

\* C2 (as stated, for a bundle signed for the call): when the risk decision
\* is not approved or no response carries kernel id 1657, transferWithKRNL
\* fails with "Transfer denied due to risk assessment" and no balance changes.
C2_DeniedFailsWithRiskMessage ==
    [][ ( /\ ContractCallStep
          /\ lastCall'.fn = "transferWithKRNL"
          /\ SignedForCall(lastCall')
          /\ ~FirstCompilotApproved(krnlPayload.kernelResponses) )
        => ( lastCall'.result = RiskDenied /\ balances' = balances ) ]_vars

\* C2 (amended): when the risk decision is not approved or no response
\* carries kernel id 1657, transferWithKRNL reverts and every token balance
\* is the same after the call as before it; the revert message is "Transfer
\* denied due to risk assessment" when the bundle is signed for the call and
\* the recipient is not the zero address.
C2_DeniedRevertsWhole ==
    [][ ( /\ ContractCallStep
          /\ lastCall'.fn = "transferWithKRNL"
          /\ ~FirstCompilotApproved(krnlPayload.kernelResponses) )
        => ( /\ lastCall'.result # "ok"
             /\ balances' = balances
             /\ ( SignedForCall(lastCall') /\ lastCall'.to # ZERO_ADDRESS
                    => lastCall'.result = RiskDenied ) ) ]_vars

\* C2 witness: a rejected decision denied a transfer the sender could pay.
C2_Witness ==
    /\ lastCall.fn = "transferWithKRNL"
    /\ lastCall.result = RiskDenied
    /\ DecodedDecision(krnlPayload.kernelResponses).payload.status = "rejected"
    /\ balances[lastCall.caller] >= lastCall.amount

\* C3: a gated transfer succeeds only if the (to, amount) of the call equal
\* the parameters the bundle was authorized for.
C3_SuccessOnlyForSignedParams ==
    (lastCall.fn = "transferWithKRNL" /\ lastCall.result = "ok") => SignedForCall(lastCall)

\* C3 witness: an approved bundle signed for another recipient and the same
\* amount was rejected although the caller could pay.
C3_Witness ==
    /\ lastCall.fn = "transferWithKRNL"
    /\ lastCall.result = "AuthorizationMismatch"
    /\ FirstCompilotApproved(krnlPayload.kernelResponses)
    /\ Len(krnlPayload.auth) = 2 * WordLen
    /\ AbiDecode2(krnlPayload.auth)[1] \in Accounts \ {lastCall.to}
    /\ AbiDecode2(krnlPayload.auth)[2] = lastCall.amount
    /\ lastCall.to # ZERO_ADDRESS
    /\ balances[lastCall.caller] >= lastCall.amount

\* C4: under one bundle (one externalTransactionId) no two successful calls
\* carry different amounts.
C4_OneAmountPerBundle ==
    \A i, j \in DOMAIN events : events[i].amount = events[j].amount

\* C4 witness: after a success the same bundle was presented by the same
\* sender for the same recipient with another amount, and was rejected.
C4_Witness ==
    /\ Len(events) = 1
    /\ lastCall.fn = "transferWithKRNL"
    /\ lastCall.result = "AuthorizationMismatch"
    /\ lastCall.caller = events[1].from
    /\ lastCall.to = events[1].to
    /\ lastCall.amount # events[1].amount
    /\ balances[lastCall.caller] >= lastCall.amount

\* C5: a bundle that already carried a transfer succeeds again when it is
\* presented with the identical (recipient, amount) and the sender's balance
\* suffices, and moves the amount a second time.
C5_ReplaySucceeds ==
    [][ ( /\ ContractCallStep
          /\ lastCall'.fn = "transferWithKRNL"
          /\ \E i \in DOMAIN events :
                /\ events[i].from = lastCall'.caller
                /\ events[i].to = lastCall'.to
                /\ events[i].amount = lastCall'.amount
          /\ balances[lastCall'.caller] >= lastCall'.amount )
        => ( /\ lastCall'.result = "ok"
             /\ balances' = Moved(balances, lastCall'.caller, lastCall'.to, lastCall'.amount) ) ]_vars

\* C5 witness: the same bundle moved the same amount twice at one timestamp.
C5_Witness ==
    /\ Len(events) = 2
    /\ events[1] = events[2]
    /\ events[1].from # events[1].to
    /\ balances[events[1].to] = 2 * events[1].amount

\* C6: transfer and transferFrom revert for every caller and argument, and
\* a balance changes only in a successful transferWithKRNL or
\* transferFromWithKRNL.
C6_LegacyEntryPointsRevert ==
    [][ /\ ( ContractCallStep /\ lastCall'.fn \in LegacyFns
               => /\ lastCall'.result \in {"Use transfer with KRNL payload",
                                           "Use transferFrom with KRNL payload"}
                  /\ UNCHANGED contractVars )
        /\ ( balances' # balances
               => /\ ContractCallStep
                  /\ lastCall'.fn \in GatedFns
                  /\ lastCall'.result = "ok" ) ]_vars

\* C6 witness: transferFrom reverted although allowance and balance would
\* have let a plain ERC20 transferFrom through.
C6_Witness ==
    /\ lastCall.fn = "transferFrom"
    /\ lastCall.result = "Use transferFrom with KRNL payload"
    /\ lastCall.from # ZERO_ADDRESS
    /\ lastCall.to # ZERO_ADDRESS
    /\ lastCall.caller # lastCall.from
    /\ allowances[lastCall.from][lastCall.caller] >= lastCall.amount
    /\ balances[lastCall.from] >= lastCall.amount

\* C7: a successful transferWithKRNL debits exactly amount from the caller
\* and credits exactly amount to `to`; every other balance and the total
\* supply are unchanged.
C7_TransferMovesExactlyAmount ==
    [][ ( /\ ContractCallStep
          /\ lastCall'.fn = "transferWithKRNL"
          /\ lastCall'.result = "ok" )
        => ( /\ balances' = Moved(balances, lastCall'.caller, lastCall'.to, lastCall'.amount)
             /\ SumOver(balances', Addresses) = SumOver(balances, Addresses)
             /\ SumOver(balances', Addresses) = InitialSupply ) ]_vars

\* C7 witness: a transfer between two different accounts went through.
C7_Witness ==
    /\ lastCall.fn = "transferWithKRNL"
    /\ lastCall.result = "ok"
    /\ lastCall.caller # lastCall.to
    /\ balances[lastCall.to] >= lastCall.amount
    /\ balances[lastCall.caller] = InitialSupply - lastCall.amount

\* C8: a successful gated transfer emits TransferAssessed(from, to, amount,
\* decision status, true, block timestamp) and leaves the decoded decision
\* under hash(from, to, amount, block timestamp), where getTransferAssessment
\* finds it; a reverted call leaves neither event nor stored decision.
C8_AuditTrailOfGatedTransfer ==
    [][ ( ContractCallStep /\ lastCall'.fn \in GatedFns )
        => IF lastCall'.result = "ok"
           THEN /\ events' = Append(events,
                       [from |-> lastCall'.from, to |-> lastCall'.to,
                        amount |-> lastCall'.amount,
                        status |-> DecodedDecision(krnlPayload.kernelResponses).payload.status,
                        allowed |-> TRUE, timestamp |-> now])
                /\ ReadAssessment(transferAssessments',
                       <<lastCall'.from, lastCall'.to, lastCall'.amount, now>>)
                     = DecodedDecision(krnlPayload.kernelResponses)
           ELSE /\ events' = events
                /\ transferAssessments' = transferAssessments ]_vars

\* C8 witness: a transferFromWithKRNL at timestamp 1 left its decision under
\* the hash of that timestamp.
C8_Witness ==
    /\ lastCall.fn = "transferFromWithKRNL"
    /\ lastCall.result = "ok"
    /\ now = MaxTime
    /\ Len(events) >= 1
    /\ events[Len(events)].timestamp = MaxTime
    /\ getTransferAssessment(<<lastCall.from, lastCall.to, lastCall.amount, MaxTime>>)
         = DecodedDecision(krnlPayload.kernelResponses)
    /\ DecodedDecision(krnlPayload.kernelResponses).payload.status = "approved"

\* ---------------------------------------------------------------- client flow
AttemptEnded == pc \in {"returned", "failed", "done"}

\* The step that ends an attempt.
AttemptEnds == pc' \in {"returned", "failed", "done"} /\ (pc' # pc \/ attempts' # attempts)

\* What the attempt needs to get as far as the kernel request: a connected
\* wallet, a recipient that is an address, and an amount above zero that
\* toWei can encode.
InputsReachKernel ==
    /\ signer
    /\ isAddress(recipientAddress)
    /\ ~EmptyText(transferAmount)
    /\ ~LessEqZero(parseFloat(transferAmount))
    /\ toWei(Number(transferAmount)).ok

\* C9: within one attempt the contract call transferWithKRNL is submitted only
\* after the kernel call has returned the bundle for this transfer, the chain
\* executes it only after that, and the transaction hash is set (success
\* reported) only after the transaction has been mined successfully.
C9_StepsInSequence ==
    [][ /\ (submissions' = submissions + 1) =>
              /\ pc = "sending"
              /\ kernelCalls = 1
              /\ krnlPayload # NoPayload
              /\ "auth" \notin missingKeys => krnlPayload.auth = functionParams
        /\ (tx' # tx /\ tx'.status = "pending") =>
              /\ krnlPayload # NoPayload
              /\ tx = NoTx
        /\ (kernelCalls' = kernelCalls + 1) =>
              /\ pc = "preparing"
              /\ krnlPayload = NoPayload
              /\ tx = NoTx
        /\ (transferHash' # transferHash) =>
              /\ pc = "confirming"
              /\ tx.status = "mined"
              /\ lastCall.fn = "transferWithKRNL"
              /\ lastCall.result = "ok"
              /\ lastCall.to = tx.to /\ lastCall.amount = tx.amount
              /\ transferHash' = tx.hash
              /\ pc' = "done"
      ]_vars

\* An attempt ended with its hash set after a confirmed transaction.
C9_Witness ==
    /\ pc = "done"
    /\ transferHash = tx.hash
    /\ tx.status = "mined"
    /\ kernelCalls = 1
    /\ submissions = 1
    /\ balances[tx.to] >= tx.amount

\* C10 as stated: an attempt that has ended, whatever ended it, has made
\* exactly one kernel call and at most one contract submission.
C10_ExactlyOneKernelCall ==
    AttemptEnded => (kernelCalls = 1 /\ submissions <= 1)

\* C10: one attempt makes at most one kernel call and at most one contract
\* submission, the submission only after the kernel call; it makes exactly one
\* kernel call when its inputs pass validation and encoding, and none
\* otherwise; once an attempt has ended, nothing is called again until the
\* user starts a new attempt.
C10_AtMostOneCallNoRetry ==
    [][ /\ kernelCalls' <= 1
        /\ submissions' <= 1
        /\ submissions' <= kernelCalls'
        /\ AttemptEnds => (kernelCalls' = 1 <=> InputsReachKernel)
        /\ (AttemptEnded /\ attempts' = attempts) =>
              /\ kernelCalls' = kernelCalls
              /\ submissions' = submissions
              /\ pc' = pc
              /\ tx' = tx \/ (tx.status = "pending" /\ tx'.hash = tx.hash)
        /\ (pc = "failed" /\ pc' # pc) => attempts' = attempts + 1
      ]_vars

\* An attempt failed on chain after one kernel call and one submission, and
\* ended there.
C10_Witness ==
    /\ pc = "failed"
    /\ ~transferLoading
    /\ kernelCalls = 1
    /\ submissions = 1
    /\ tx.status = "mined"
    /\ lastCall.result = "Transfer denied due to risk assessment"

\* C11: when executeKernels rejects, the caller of executeTokenTransfer (the
\* catch block of handleTokenTransfer) receives that very error, the attempt
\* ends as failed, and the attempt has submitted no contract transaction.
C11_KernelErrorPropagates ==
    [][ (pc = "authorizing" /\ pc' = "failed") =>
              /\ kernelFault' \in KernelFaults
              /\ caughtError' = kernelFault'
              /\ submissions' = 0
              /\ tx' = NoTx
              /\ krnlPayload' = NoPayload
              /\ UNCHANGED <<contractVars, lastCall>>
      ]_vars

\* An attempt ended by a kernel failure with a message of its own.
C11_Witness ==
    /\ pc = "failed"
    /\ kernelFault \in KernelFaults
    /\ kernelFault.message # ""
    /\ caughtError = kernelFault
    /\ errorToast = kernelFault.message
    /\ submissions = 0

\* C12: a kernel response that lacks auth, kernel_responses or kernel_params
\* ends the attempt with a KernelResponseMalformed failure and is never handed
\* to the contract call.
C12_MalformedResponseRejected ==
    (missingKeys # {} /\ AttemptEnded) =>
        /\ caughtError.name = "KernelResponseMalformed"
        /\ submissions = 0

C14_OneTransactionId ==
    /\ monitored.pc \in {"requested", "unstake", "relay threw"} =>
          /\ monitored.krnl.request.externalTransactionId # NoId
          /\ AbiDecodeKrnlId(monitored.krnl.request.functionParams)
                = monitored.krnl.request.externalTransactionId
          /\ monitored.krnl.transactionData.externalTransactionId
                = monitored.krnl.request.externalTransactionId
    /\ monitored.pc = "unstake" =>
          monitored.relay.unstake.externalTransactionId
              = monitored.krnl.request.externalTransactionId

\* unstake was called for a transactionData that went through executeKrnl.
C14_Witness ==
    /\ monitored.pc = "unstake"
    /\ monitored.relay.unstake.externalTransactionId = SuppliedId("tx-caller")
    /\ monitored.krnl.request.externalTransactionId = SuppliedId("tx-caller")
    /\ ~monitored.given.hasInfo

\* An id of the form "tx-" + millis + "-" + 8 alphanumerics.
GeneratedForm(id) ==
    /\ id.prefix = "tx-"
    /\ id.millis \in Millis
    /\ Len(id.suffix) = 8
    /\ \A i \in 1..Len(id.suffix) : id.suffix[i] # "."

\* C15: when the caller supplies no externalTransactionId, the builder
\* (executeTokenTransfer, which takes none, and executeKrnl, when
\* transactionData carries none) generates an id of the form "tx-" + millis +
\* "-" + 8 alphanumerics and sends the request with it.
C15_GeneratesIdWhenNoneSupplied ==
    /\ (built.ran /\ ~built.out.threw) =>
          GeneratedForm(built.out.request.externalTransactionId)
    /\ (/\ monitored.pc # "idle"
        /\ isAddress(monitored.address)
        /\ ~monitored.given.isNull
        /\ monitored.given.externalTransactionId = NoId
        /\ toWei(IF Falsy(monitored.given.amount) THEN DefaultAmount
                 ELSE monitored.given.amount).ok) =>
          /\ ~monitored.krnl.threw
          /\ GeneratedForm(monitored.krnl.request.externalTransactionId)

\* C16: the amount in the body of the attestation request is the amount of
\* the transfer, the one encoded in the function parameters.
C16_BodyCarriesTransferAmount ==
    /\ (built.ran /\ ~built.out.threw) =>
          /\ built.out.request.amount = built.amount
          /\ toWei(built.out.request.amount).wei
                = AbiDecode2(built.out.request.functionParams)[2]
    /\ monitored.pc \in {"requested", "unstake", "relay threw"} =>
          toWei(monitored.krnl.request.amount).wei
              = FromWord(SubSeq(monitored.krnl.request.functionParams,
                                WordLen + 1, 2 * WordLen))

SignedForGatedCall(call) ==
    IF call.fn = "transferWithKRNL"
    THEN krnlPayload.auth = AbiEncode2(call.to, call.amount)
    ELSE krnlPayload.auth = AbiEncode3(call.from, call.to, call.amount)

\* The bundle's decision exists, is not approved and carries a reason.
DeniedWithReason ==
    /\ \E i \in DOMAIN krnlPayload.kernelResponses : IsCompilot(krnlPayload.kernelResponses, i)
    /\ ~FirstCompilotApproved(krnlPayload.kernelResponses)
    /\ DecodedDecision(krnlPayload.kernelResponses).payload.reason # ""

\* C18 as stated: a gated transfer denied because the decision's status is
\* not "approved" reverts with the decision's reason when that is non-empty.
C18_RevertsWithDecisionReason ==
    [][ ( /\ ContractCallStep
          /\ lastCall'.fn \in GatedFns
          /\ SignedForGatedCall(lastCall')
          /\ lastCall'.to # ZERO_ADDRESS /\ lastCall'.from # ZERO_ADDRESS
          /\ DeniedWithReason )
        => lastCall'.result = DecodedDecision(krnlPayload.kernelResponses).payload.reason
      ]_vars

\* C18: a gated transfer denied because the decision's status is not
\* "approved" reverts with the fixed message "Transfer denied due to risk
\* assessment" (given a bundle signed for the call and non-zero addresses),
\* whatever reason the decision carries; the reason appears neither in the
\* revert nor, the store being rolled back, in transferAssessments.
C18_RevertsWithFixedMessage ==
    [][ ( /\ ContractCallStep
          /\ lastCall'.fn \in GatedFns
          /\ DeniedWithReason )
        => ( /\ lastCall'.result # "ok"
             /\ lastCall'.result # DecodedDecision(krnlPayload.kernelResponses).payload.reason
             /\ ( SignedForGatedCall(lastCall')
                    /\ lastCall'.to # ZERO_ADDRESS /\ lastCall'.from # ZERO_ADDRESS
                    => lastCall'.result = RiskDenied )
             /\ UNCHANGED <<transferAssessments, events, balances>> )
      ]_vars

\* A pending decision with a reason denied a transferFromWithKRNL.
C18_Witness ==
    /\ lastCall.fn = "transferFromWithKRNL"
    /\ lastCall.result = RiskDenied
    /\ DecodedDecision(krnlPayload.kernelResponses).payload.status = "pending"
    /\ DecodedDecision(krnlPayload.kernelResponses).payload.reason
          = "Awaiting risk assessment completion"

\* The results the risk proxy returned with status 200 for a body the
\* upstream API answered, each with that body: the response of a single
\* endpoint, or one item of the bulk results.
Successes ==
    IF proxy.response.status # 200 THEN {}
    ELSE IF proxy.endpoint = "bulk"
    THEN { [upstream |-> proxy.upstream[i].data, result |-> proxy.response.body.results[i]] :
             i \in {j \in DOMAIN proxy.addresses : proxy.upstream[j].kind = "data"} }
    ELSE {[upstream |-> proxy.upstream[1].data, result |-> proxy.response.body]}

NullsReplaced(s) ==
    \A k \in DOMAIN s.upstream.fields \cap {"risk", "riskReason", "status"} :
        s.upstream.fields[k] = JsonNull => Get(s.result, k) = JsonString("null")

AddressRenamed(s) ==
    "address" \in DOMAIN s.upstream.fields =>
        /\ "address" \notin DOMAIN s.result.fields
        /\ Get(s.result, "walletAddress") =
              IF s.upstream.fields["address"] = JsonNull THEN JsonString("null")
              ELSE s.upstream.fields["address"]

\* C19: in every response shape of the risk proxy (GET single, POST single,
\* each item of the bulk results) a returned field that is JSON null upstream
\* is the string "null", and the upstream's top-level address is returned
\* under the key walletAddress.
C19_NullsAndAddressInEveryShape ==
    \A s \in Successes : NullsReplaced(s) /\ AddressRenamed(s)

\* C20: every successful result of the risk proxy, of a single endpoint or an
\* item of the bulk results, has no key besides walletAddress, risk,
\* riskReason and status.
C20_OnlyRiskFields ==
    \A s \in Successes : DOMAIN s.result.fields \subseteq RiskFields

\* A bulk response with two results, one of them for an upstream body that
\* carried a field the proxy does not return, and returned with all four keys.
C20_Witness ==
    /\ proxy.endpoint = "bulk"
    /\ Cardinality(Successes) = 2
    /\ \E s \in Successes :
          /\ "cluster" \in DOMAIN s.upstream.fields
          /\ DOMAIN s.result.fields = RiskFields

\* Every address of the request is 0x and forty hexadecimal digits, and a
\* bulk request has between 1 and 100 of them.
WellFormedRequest ==
    /\ \A i \in DOMAIN proxy.addresses : proxy.addresses[i] \in WellFormedAddresses
    /\ proxy.endpoint = "bulk" => Len(proxy.addresses) >= 1 /\ Len(proxy.addresses) <= 100

\* C21: the risk proxy looks an address up upstream only for a request all
\* of whose addresses are well formed; any other request, and a bulk list of
\* fewer than 1 or more than 100 addresses, is answered with status 400 and
\* no upstream call.
C21_ForwardsOnlyValidRequests ==
    proxy.endpoint # "none" =>
        /\ proxy.response.calls # <<>> => WellFormedRequest
        /\ ~WellFormedRequest => proxy.response.status = 400 /\ proxy.response.calls = <<>>

\* A bulk request of 101 well-formed addresses, refused.
C21_Witness ==
    /\ proxy.endpoint = "bulk"
    /\ Len(proxy.addresses) = 101
    /\ \A i \in DOMAIN proxy.addresses : proxy.addresses[i] \in WellFormedAddresses
    /\ proxy.response.status = 400
    /\ proxy.response.calls = <<>>

\* C22: a valid bulk request of n addresses is answered with n results, one
\* for each address in the order of the request, and totalAnalyzed = n; the
\* results of the addresses whose lookup failed, and of no others, are error
\* entries naming that address, and the request itself does not fail.
C22_BulkPerItemIsolation ==
    proxy.endpoint = "bulk" /\ WellFormedRequest =>
        /\ proxy.response.status = 200
        /\ Len(proxy.response.body.results) = Len(proxy.addresses)
        /\ proxy.response.body.totalAnalyzed = Len(proxy.addresses)
        /\ \A i \in DOMAIN proxy.addresses :
              LET item == proxy.response.body.results[i]
              IN  /\ proxy.upstream[i].kind # "data" <=> "error" \in DOMAIN item.fields
                  /\ proxy.upstream[i].kind # "data" =>
                        Get(item, "walletAddress") = JsonString(proxy.addresses[i])

\* The module that reads a configuration value, and whether the value is
\* missing from the environment the programs were started in.
FrontendKeys ==
    {"NEXT_PUBLIC_RPC_KRNL", "ENTRY_ID", "ACCESS_TOKEN", "KERNEL_ID", "CONTRACT_ADDRESS"}
ProxyKeys == {"CHAINALYSIS_BASE_URL", "CHAINALYSIS_API_TOKEN"}
Absent(k) == startup.pc = "set" /\ startup.env[k] = "unset"
FrontendDown ==
    startup.frontend # "loaded" /\ ~startup.kernelCalled /\ ~startup.contractCalled
ProxyDown == startup.server # "listening" /\ ~startup.proxied

\* C23: when any of the seven configuration values (kernel RPC URL, entry
\* id, access token, kernel id, contract address, third-party base URL and
\* token) is absent, the module that reads it fails at load, and no kernel
\* call, contract call or proxied request is made.
C23_EveryRequiredValueChecked ==
    /\ \A k \in FrontendKeys : Absent(k) => FrontendDown
    /\ \A k \in ProxyKeys : Absent(k) => ProxyDown

\* C23, amended: the same of entry id, access token, kernel id, contract
\* address and third-party token; the kernel RPC URL is not checked and the
\* third-party base URL has a default.
C23_CheckedValuesAreFatal ==
    /\ \A k \in FrontendKeys \ {"NEXT_PUBLIC_RPC_KRNL"} : Absent(k) => FrontendDown
    /\ Absent("CHAINALYSIS_API_TOKEN") => ProxyDown

\* Only the access token is missing: the kernel module was loaded and threw.
C23_Witness ==
    /\ startup.pc = "set"
    /\ \A k \in EnvKeys : startup.env[k] = "unset" <=> k = "ACCESS_TOKEN"
    /\ startup.frontend = "threw"
    /\ startup.server = "listening"

\* C24: for every decision, whatever its status, riskLevel and riskScore,
\* the test script's simulateTokenTransferVerification gives the verdict
\* that TokenContract.checkTransferAllowed gives for the same decision.
C24_SimulationEqualsGate ==
    sim.ran => (sim.simulated <=> sim.allowed)

\* The hashes the banner was shown for.
Notified == { notif.calls[i].hash : i \in {j \in DOMAIN notif.calls : notif.calls[j].shown} }

\* Nothing is set and not rendered, and no effect is due.
Quiescent ==
    /\ notif.renderedHash = transferHash
    /\ notif.setShow = "none" /\ notif.setExiting = "none"
    /\ ~notif.autoHideDue /\ ~notif.guardedDue

C26_EveryConfirmedHashNotified ==
    \A h \in 1..MaxAttempts :
        (transferHash = h) ~> (h \in Notified)

\* C27: a banner that is shown is hidden again and the notificationActive
\* gate is reset: the gate does not stay true, and when nothing is pending
\* it is true exactly while the banner is shown or exiting.
C27_BannerHiddenAndGateReset ==
    /\ [](Quiescent => (notif.active <=> (notif.show \/ notif.exiting)))
    /\ notif.show ~> ~notif.show
    /\ notif.active ~> ~notif.active

\* A call of transferFromWithKRNL is executed in this step.
TransferFromStep == lastCall = NoCall /\ lastCall'.fn = "transferFromWithKRNL"

\* The call succeeds only with both addresses set, an approved decision,
\* and an allowance and a balance that cover the amount.
TransferFromSucceedsOnlyIfCovered ==
    lastCall'.result = "ok" =>
        /\ lastCall'.from # ZERO_ADDRESS /\ lastCall'.to # ZERO_ADDRESS
        /\ FirstCompilotApproved(krnlPayload.kernelResponses)
        /\ allowances[lastCall'.from][lastCall'.caller] >= lastCall'.amount
        /\ balances[lastCall'.from] >= lastCall'.amount

\* C28: transferFromWithKRNL either succeeds, taking amount off the
\* caller's allowance over from and moving amount from from to to, or
\* reverts with every allowance and every balance as before; a denied
\* decision, a zero address, an allowance or a balance that is too small
\* make it revert.
C28_SpendsAllowanceOrChangesNothing ==
    [][TransferFromStep =>
          /\ TransferFromSucceedsOnlyIfCovered
          /\ IF lastCall'.result = "ok"
             THEN /\ allowances' = [allowances EXCEPT
                                      ![lastCall'.from][lastCall'.caller] =
                                          @ - lastCall'.amount]
                  /\ balances' = Moved(balances, lastCall'.from, lastCall'.to,
                                       lastCall'.amount)
             ELSE allowances' = allowances /\ balances' = balances]_vars

\* C28, amended: the same, but an allowance of type(uint256).max is not
\* reduced by a successful call.
C28_SpendsFiniteAllowanceOrChangesNothing ==
    [][TransferFromStep =>
          /\ TransferFromSucceedsOnlyIfCovered
          /\ IF lastCall'.result = "ok"
             THEN /\ allowances' =
                        IF allowances[lastCall'.from][lastCall'.caller] = MaxUint256
                        THEN allowances
                        ELSE [allowances EXCEPT
                                ![lastCall'.from][lastCall'.caller] = @ - lastCall'.amount]
                  /\ balances' = Moved(balances, lastCall'.from, lastCall'.to,
                                       lastCall'.amount)
             ELSE allowances' = allowances /\ balances' = balances]_vars

\* A transferFromWithKRNL that succeeded on an unlimited allowance, which
\* is still unlimited, with the amount moved.
C28_Witness ==
    /\ lastCall.fn = "transferFromWithKRNL"
    /\ lastCall.result = "ok"
    /\ lastCall.from # lastCall.to
    /\ allowances[lastCall.from][lastCall.caller] = MaxUint256
    /\ balances[lastCall.to] >= lastCall.amount

\* The entries of kernel 1657, in the order of the list.
CompilotEntries(kernelResponses) ==
    SelectSeq(kernelResponses, LAMBDA r : r.kernelId = COMPILOT_KERNEL_ID)

\* C29: of several entries with kernel id 1657 only the first decides: the
\* verdict is that of the first 1657 entry alone, so a first entry that is
\* not approved denies the transfer whatever a later one says, and the
\* verdict is the same with the entries of other kernels taken out.
C29_OnlyFirstCompilotEntryDecides ==
    gate.ran =>
        LET entries == CompilotEntries(gate.kernelResponses)
        IN  /\ entries # <<>> =>
                 (gate.out.allowed <=> entries[1].result.payload.status = "approved")
            /\ gate.out.allowed =
                 checkTransferAllowed(entries, gate.from, gate.to, gate.amount, now).allowed
            /\ gate.out.response =
                 checkTransferAllowed(entries, gate.from, gate.to, gate.amount, now).response

\* C29 witness: two entries of kernel 1657, the first not approved, the
\* second approved, and the transfer denied.
C29_Witness ==
    /\ gate.ran
    /\ Len(gate.kernelResponses) = 2
    /\ \A i \in 1..2 : gate.kernelResponses[i].kernelId = COMPILOT_KERNEL_ID
    /\ gate.kernelResponses[1].result.payload.status # "approved"
    /\ gate.kernelResponses[2].result.payload.status = "approved"
    /\ ~gate.out.allowed

\* The lookups of the bulk request that are in flight.
InFlight == bulk.started \ bulk.completed

\* The number of the batch a position of the list belongs to.
BatchOf(j) == (j - 1) \div batchSize

\* C30: the bulk route works in batches of at most 10: at most 10 lookups
\* of one request are in flight at any time, and a lookup of a batch is
\* started only when every lookup of the batches before it has completed.
C30_BatchesOfTenOneAfterAnother ==
    /\ Cardinality(InFlight) <= 10
    /\ \A j \in bulk.started : \A k \in DOMAIN bulk.addresses :
          BatchOf(k) < BatchOf(j) => k \in bulk.completed
    /\ \A j \in InFlight : \A k \in bulk.started : BatchOf(k) <= BatchOf(j)

\* C30 witness: a list of more than ten addresses whose first batch has
\* completed, one lookup of it with an error, and whose second batch is in
\* flight.
C30_Witness ==
    /\ bulk.pc = "awaiting"
    /\ Len(bulk.addresses) > batchSize
    /\ bulk.i = batchSize
    /\ 1..batchSize \subseteq bulk.completed
    /\ bulk.failed
    /\ InFlight # {}

====
